---- MODULE Spec2Model ----
(***************************************************************************)
(* Date parsing and recency filtering of the news spiders                  *)
(* (bankinform, plusworld, rb).                                            *)
(*                                                                         *)
(* A text is a sequence of Unicode code points, so that the regular        *)
(* expressions, the substring tests, str.strip, str.lower and int() of the *)
(* sources are modelled on characters.  A datetime is a record             *)
(* [y, m, d, tod] with tod the minute of the day (the sources' datetimes   *)
(* carry microseconds; the minute is the finest unit any operation of the  *)
(* sources subtracts).  None is the Python None; Raise is an exception     *)
(* that leaves the function.                                               *)
(***************************************************************************)
EXTENDS Integers, Sequences, FiniteSets, TLC

None == [k |-> "None"]
Raise == [k |-> "Raise"]

(***************************************************************************)
(* Characters                                                              *)
(***************************************************************************)
SP == 32
DOT == 46
SLASH == 47
DASH == 45

\* the zeros of the decimal digits of Unicode; the nine digits after a zero
\* follow it
DigitZeros ==
    {48, 1632, 1776, 1984, 2406, 2534, 2662, 2790, 2918, 3046, 3174, 3302,
     3430, 3558, 3664, 3792, 3872, 4160, 4240, 6112, 6160, 6470, 6608,
     6784, 6800, 6992, 7088, 7232, 7248, 42528, 43216, 43264, 43472,
     43504, 43600, 44016, 65296, 66720, 68912, 69734, 69872, 69942, 70096,
     70384, 70736, 70864, 71248, 71360, 71472, 71904, 72016, 72784, 73040,
     73120, 92768, 92864, 93008, 120782, 120792, 120802, 120812, 120822,
     123200, 123632, 125264, 130032}

\* re: \d on str patterns: the decimal digits of Unicode; int() reads every
\* one of them
DigitClass == UNION {z..(z + 9) : z \in DigitZeros}

\* int() of one digit
DigitValue(c) ==
    IF c \in 48..57 THEN c - 48
    ELSE CHOOSE v \in 0..9 : c - v \in DigitZeros

\* re: \s on str patterns; also the characters str.strip() removes
SpaceClass ==
    {9, 10, 11, 12, 13, 28, 29, 30, 31, 32, 133, 160, 5760}
        \cup (8192..8202) \cup {8232, 8233, 8239, 8287, 12288}

\* str.lower() on the Cyrillic letters U+0400..U+042F, the ASCII and the
\* Latin-1 letters
Lower(c) ==
    IF c \in 1040..1071 THEN c + 32
    ELSE IF c \in 1024..1039 THEN c + 80
    ELSE IF c \in 65..90 THEN c + 32
    ELSE IF c \in (192..222) \ {215} THEN c + 32
    ELSE c

LowerStr(s) == [i \in 1..Len(s) |-> Lower(s[i])]

\* re.IGNORECASE: the letter a character is taken for.  U+1C80..U+1C86 are
\* taken for the Russian letters ve, de, o, es, te, te and the hard sign
FoldCase(c) ==
    IF c \in 7296..7302
    THEN << 1074, 1076, 1086, 1089, 1090, 1090, 1098 >>[c - 7295]
    ELSE Lower(c)

\* the class [a-ya yo] of the bankinform and rb patterns: U+0430..U+044F, U+0451
CyrLowerClass == (1072..1103) \cup {1105}

\* the same class under re.IGNORECASE
CyrAnyCaseClass ==
    CyrLowerClass \cup (1040..1071) \cup {1025} \cup (7296..7302)

\* the icon class of bankinform's clean_date_text: U+23F0, U+1F552, U+1F4C5
IconClass == {9200, 128338, 128197}

(***************************************************************************)
(* Sequences of characters                                                 *)
(***************************************************************************)
\* s[i..j], empty when j < i
Sub(s, i, j) == IF j < i THEN << >> ELSE SubSeq(s, i, j)

\* Python: needle in s
Contains(s, needle) ==
    \E i \in 1..(Len(s) - Len(needle) + 1) :
        \A k \in 1..Len(needle) : s[i + k - 1] = needle[k]

\* needle occurs in s at position i, ignoring case
OccursAtIC(s, i, needle) ==
    /\ i + Len(needle) - 1 <= Len(s)
    /\ \A k \in 1..Len(needle) : FoldCase(s[i + k - 1]) = FoldCase(needle[k])

\* the number of consecutive characters of s from position i that are in cls
Run(s, i, cls) ==
    IF i > Len(s) THEN 0
    ELSE CHOOSE n \in 0..(Len(s) - i + 1) :
             /\ \A k \in i..(i + n - 1) : s[k] \in cls
             /\ (i + n > Len(s) \/ s[i + n] \notin cls)

\* str.strip()
RECURSIVE LStrip(_)
LStrip(s) == IF s # << >> /\ Head(s) \in SpaceClass THEN LStrip(Tail(s)) ELSE s

RECURSIVE RStrip(_)
RStrip(s) ==
    IF s # << >> /\ s[Len(s)] \in SpaceClass THEN RStrip(Sub(s, 1, Len(s) - 1)) ELSE s

Strip(s) == RStrip(LStrip(s))

(***************************************************************************)
(* int() and the calendar of datetime                                      *)
(***************************************************************************)
\* a value larger than any day count or year the datetime type can hold;
\* int() of a longer digit group saturates here (Python ints are unbounded,
\* every use of such a value in the sources overflows in datetime)
Huge == 100000000

\* int(digits) \div k and int(digits) % k by long division, the quotient
\* saturated at Huge
RECURSIVE DivModDigits(_, _, _, _)
DivModDigits(ds, k, q, r) ==
    IF ds = << >> THEN [q |-> q, r |-> r]
    ELSE LET v == r * 10 + DigitValue(Head(ds))
         IN  DivModDigits(Tail(ds), k,
                          IF q * 10 + v \div k > Huge THEN Huge
                          ELSE q * 10 + v \div k,
                          v % k)

\* int(digits), saturated at Huge
IntOf(ds) == DivModDigits(ds, 1, 0, 0).q

DaysInMonth(y, m) ==
    IF m = 2
    THEN (IF (y % 4 = 0) /\ ((y % 100 # 0) \/ (y % 400 = 0)) THEN 29 ELSE 28)
    ELSE IF m \in {4, 6, 9, 11} THEN 30 ELSE 31

MINYEAR == 1
MAXYEAR == 9999

\* what datetime(year, month, day) requires before it builds the value
ValidDate(y, m, d) ==
    /\ y \in MINYEAR..MAXYEAR
    /\ m \in 1..12
    /\ d \in 1..DaysInMonth(y, m)

RECURSIVE DaysBeforeMonth(_, _)
DaysBeforeMonth(y, m) ==
    IF m <= 1 THEN 0 ELSE DaysBeforeMonth(y, m - 1) + DaysInMonth(y, m - 1)

DaysBeforeYear(y) ==
    (y - 1) * 365 + (y - 1) \div 4 - (y - 1) \div 100 + (y - 1) \div 400

\* date.toordinal()
Ordinal(y, m, d) == DaysBeforeYear(y) + DaysBeforeMonth(y, m) + d

\* the year that holds day n of the calendar
YearOfOrdinal(n) ==
    CHOOSE yy \in (n \div 366)..(n \div 365 + 1) :
        yy >= 1 /\ DaysBeforeYear(yy) < n /\ n <= DaysBeforeYear(yy + 1)

\* the month of year y that holds day r of the year
MonthOfYearDay(y, r) ==
    CHOOSE mm \in 1..12 :
        /\ DaysBeforeMonth(y, mm) < r
        /\ r <= DaysBeforeMonth(y, mm) + DaysInMonth(y, mm)

\* day r of year y
DateInYear(y, r) ==
    [y |-> y, m |-> MonthOfYearDay(y, r),
     d |-> r - DaysBeforeMonth(y, MonthOfYearDay(y, r))]

\* date.fromordinal(), as a record [y, m, d]
FromOrdinal(n) ==
    DateInYear(YearOfOrdinal(n), n - DaysBeforeYear(YearOfOrdinal(n)))

\* the datetime of the date c at minute tod of the day
WithTod(c, tod) == [k |-> "dt", y |-> c.y, m |-> c.m, d |-> c.d, tod |-> tod]

MinutesPerDay == 1440

\* a constructor that carries the days past the end of the month into the
\* following month instead of refusing them
MkDate_rollover(y, m, d) ==
    IF y \in MINYEAR..MAXYEAR /\ m \in 1..12 /\ d >= 1
    THEN WithTod(FromOrdinal(Ordinal(y, m, 1) + d - 1), 0)
    ELSE Raise

\* datetime(year, month, day): midnight of that day, ValueError (Raise) when
\* the components are not a calendar date
MkDate(y, m, d) ==
    IF ValidDate(y, m, d) THEN WithTod([y |-> y, m |-> m, d |-> d], 0) ELSE Raise

\* what a function returns whose try catches the exception of r
NoneIfRaise(r) == IF r = Raise THEN None ELSE r

IsDt(x) == x.k = "dt"

DtOrd(dt) == Ordinal(dt.y, dt.m, dt.d)

\* datetime >= datetime
DtGE(a, b) ==
    \/ DtOrd(a) > DtOrd(b)
    \/ DtOrd(a) = DtOrd(b) /\ a.tod >= b.tod

\* the same with the day borrowed when mins is more than the time of day
DtMinusBorrow(dt, days, mins, borrow) ==
    IF days + borrow >= DtOrd(dt) THEN Raise
    ELSE WithTod(FromOrdinal(DtOrd(dt) - days - borrow),
                 dt.tod - mins + borrow * MinutesPerDay)

\* dt - timedelta(days = days, minutes = mins) with 0 <= mins < 1440;
\* OverflowError (Raise) when the result leaves the range of datetime
DtMinus(dt, days, mins) ==
    DtMinusBorrow(dt, days, mins, IF dt.tod < mins THEN 1 ELSE 0)

\* the decimal digits of n, without padding
RECURSIVE NumStr(_)
NumStr(n) ==
    IF n < 10 THEN << 48 + n >> ELSE NumStr(n \div 10) \o << 48 + (n % 10) >>

\* n written in at least w digits
RECURSIVE ZeroPad(_, _)
ZeroPad(ds, w) == IF Len(ds) >= w THEN ds ELSE ZeroPad(<< 48 >> \o ds, w)

\* the characters T and : of datetime.isoformat()
TEE == 84
COLON == 58

\* datetime.isoformat(): YYYY-MM-DDTHH:MM:SS.  The clock readings of the model
\* are whole minutes, so the seconds are 00 and no fraction is written.
isoformat(dt) ==
    ZeroPad(NumStr(dt.y), 4) \o << DASH >> \o ZeroPad(NumStr(dt.m), 2)
    \o << DASH >> \o ZeroPad(NumStr(dt.d), 2) \o << TEE >>
    \o ZeroPad(NumStr(dt.tod \div 60), 2) \o << COLON >>
    \o ZeroPad(NumStr(dt.tod % 60), 2) \o << COLON, 48, 48 >>

\* article_date.isoformat() if article_date else None
IsoOrNone(date) == IF date = None THEN None ELSE isoformat(date)

(***************************************************************************)
(* The regular expressions of the sources                                  *)
(***************************************************************************)
NoMatch == [ok |-> FALSE]

\* s[i..i+n-1] are n digits
DigitsAt(s, i, n) ==
    /\ i + n - 1 <= Len(s)
    /\ \A k \in i..(i + n - 1) : s[k] \in DigitClass

\* (\d{1,2})\s+([class]+)\s+(\d{4}) matched at position i.  Each quantifier
\* is greedy and no shorter choice can succeed: the character after a
\* shortened run is of the run's class, not of the class that must follow.
\* dl, w1, nl, w2 are the lengths of the day, the first white space, the
\* word and the second white space.
RuGroups(s, i, dl, w1, nl, w2) ==
    IF dl >= 1 /\ w1 >= 1 /\ nl >= 1 /\ w2 >= 1
       /\ DigitsAt(s, i + dl + w1 + nl + w2, 4)
    THEN [ok |-> TRUE, g1 |-> Sub(s, i, i + dl - 1),
          g2 |-> Sub(s, i + dl + w1, i + dl + w1 + nl - 1),
          g3 |-> Sub(s, i + dl + w1 + nl + w2, i + dl + w1 + nl + w2 + 3)]
    ELSE NoMatch

RuAfterWord(s, i, dl, w1, nl) ==
    RuGroups(s, i, dl, w1, nl, Run(s, i + dl + w1 + nl, SpaceClass))

RuAfterSpace(s, i, InClass, dl, w1) ==
    RuAfterWord(s, i, dl, w1, Run(s, i + dl + w1, InClass))

RuAfterDay(s, i, InClass, dl) ==
    RuAfterSpace(s, i, InClass, dl, Run(s, i + dl, SpaceClass))

RuMatchAt(s, i, InClass) ==
    RuAfterDay(s, i, InClass,
               IF Run(s, i, DigitClass) >= 2 THEN 2 ELSE Run(s, i, DigitClass))

\* re.search: of the matches ms[i] at the positions i, the leftmost
FirstMatch(ms) ==
    IF \E i \in DOMAIN ms : ms[i].ok
    THEN ms[CHOOSE i \in DOMAIN ms :
                ms[i].ok /\ \A j \in 1..(i - 1) : ~ms[j].ok]
    ELSE NoMatch

RuSearch(s, InClass) ==
    FirstMatch([i \in 1..Len(s) |-> RuMatchAt(s, i, InClass)])

\* the groups of a match at i whose day has a digits and month b digits
DmyGroups(s, i, a, b) ==
    [ok |-> TRUE, g1 |-> Sub(s, i, i + a - 1),
     g2 |-> Sub(s, i + a + 1, i + a + b),
     g3 |-> Sub(s, i + a + b + 2, i + a + b + 5)]

\* (\d{1,2})<sep>(\d{1,2})<sep>(\d{4}) matched at position i
DmyMatchAt(s, i, sep) ==
    IF \E a \in 1..2, b \in 1..2 :
           /\ DigitsAt(s, i, a) /\ i + a <= Len(s) /\ s[i + a] = sep
           /\ DigitsAt(s, i + a + 1, b)
           /\ i + a + b + 1 <= Len(s) /\ s[i + a + b + 1] = sep
           /\ DigitsAt(s, i + a + b + 2, 4)
    THEN DmyGroups(s, i, IF DigitsAt(s, i, 2) THEN 2 ELSE 1,
                   IF DigitsAt(s, i + (IF DigitsAt(s, i, 2) THEN 3 ELSE 2), 2)
                   THEN 2 ELSE 1)
    ELSE NoMatch

DmySearch(s, sep) ==
    FirstMatch([i \in 1..Len(s) |-> DmyMatchAt(s, i, sep)])

\* the groups of a match at i whose month has b digits and day c digits
YmdGroups(s, i, b, c) ==
    [ok |-> TRUE, g1 |-> Sub(s, i, i + 3),
     g2 |-> Sub(s, i + 5, i + 4 + b),
     g3 |-> Sub(s, i + 6 + b, i + 5 + b + c)]

\* (\d{4})-(\d{1,2})-(\d{1,2}) matched at position i; the last group is
\* greedy and nothing follows it
YmdMatchAt(s, i) ==
    IF \E b \in 1..2 :
           /\ DigitsAt(s, i, 4) /\ i + 4 <= Len(s) /\ s[i + 4] = DASH
           /\ DigitsAt(s, i + 5, b)
           /\ i + 5 + b <= Len(s) /\ s[i + 5 + b] = DASH
           /\ DigitsAt(s, i + 6 + b, 1)
    THEN YmdGroups(s, i, IF DigitsAt(s, i + 5, 2) THEN 2 ELSE 1,
                   IF DigitsAt(s, i + (IF DigitsAt(s, i + 5, 2) THEN 8 ELSE 7), 2)
                   THEN 2 ELSE 1)
    ELSE NoMatch

YmdSearch(s) == FirstMatch([i \in 1..Len(s) |-> YmdMatchAt(s, i)])

\* \d{1,2}\s+[class]+ has a match in s
DayWordFound(s, InClass) ==
    \E i \in 1..Len(s) :
        /\ s[i] \in DigitClass
        /\ Run(s, i + 1, SpaceClass) >= 1
        /\ Run(s, i + 1 + Run(s, i + 1, SpaceClass), InClass) >= 1

\* \d+\s+(stem|stem|...) has a match in s, ignoring case
NumStemFound(s, stems) ==
    \E i \in 1..Len(s) :
        /\ s[i] \in DigitClass
        /\ Run(s, i + 1, SpaceClass) >= 1
        /\ \E n \in 1..Len(stems) :
               OccursAtIC(s, i + 1 + Run(s, i + 1, SpaceClass), stems[n])

\* re.findall(r'\d+', s)[0]: the first maximal group of digits, << >> if none
FirstNumber(s) ==
    IF \E i \in 1..Len(s) : s[i] \in DigitClass
    THEN LET i0 == CHOOSE i \in 1..Len(s) :
                       s[i] \in DigitClass /\ \A j \in 1..(i - 1) : s[j] \notin DigitClass
         IN  Sub(s, i0, i0 + Run(s, i0, DigitClass) - 1)
    ELSE << >>

\* re.sub(r'[icons]', '', s)
RemoveChars(s, Drop) ==
    LET Keep(c) == c \notin Drop IN SelectSeq(s, Keep)

\* re.sub(r'\s+', ' ', s)
RECURSIVE CollapseSpaces(_)
CollapseSpaces(s) ==
    IF s = << >> THEN << >>
    ELSE IF Head(s) \in SpaceClass
         THEN << SP >> \o CollapseSpaces(Sub(s, 1 + Run(s, 1, SpaceClass), Len(s)))
         ELSE << Head(s) >> \o CollapseSpaces(Tail(s))

(***************************************************************************)
(* bankinform: BankinformSpider                                            *)
(***************************************************************************)
\* month_mapping: the genitive month names, the n-th name is month n
month_mapping ==
    << << 1103, 1085, 1074, 1072, 1088, 1103 >>,  \* yanvarya
       << 1092, 1077, 1074, 1088, 1072, 1083, 1103 >>,  \* fevralya
       << 1084, 1072, 1088, 1090, 1072 >>,  \* marta
       << 1072, 1087, 1088, 1077, 1083, 1103 >>,  \* aprelya
       << 1084, 1072, 1103 >>,  \* maya
       << 1080, 1102, 1085, 1103 >>,  \* iyunya
       << 1080, 1102, 1083, 1103 >>,  \* iyulya
       << 1072, 1074, 1075, 1091, 1089, 1090, 1072 >>,  \* avgusta
       << 1089, 1077, 1085, 1090, 1103, 1073, 1088, 1103 >>,  \* sentyabrya
       << 1086, 1082, 1090, 1103, 1073, 1088, 1103 >>,  \* oktyabrya
       << 1085, 1086, 1103, 1073, 1088, 1103 >>,  \* noyabrya
       << 1076, 1077, 1082, 1072, 1073, 1088, 1103 >> >>  \* dekabrya

\* month_mapping[month_ru] if month_ru in month_mapping, 0 otherwise
MonthNumber(names, tok) ==
    IF \E n \in 1..Len(names) : names[n] = tok
    THEN CHOOSE n \in 1..Len(names) : names[n] = tok
    ELSE 0

\* the date of the groups mt of a match, None when there is no match, the
\* word is not in the month table or datetime() raises ValueError
RussianDateOf(mt, names) ==
    IF ~mt.ok THEN None
    ELSE IF MonthNumber(names, LowerStr(mt.g2)) = 0 THEN None
    ELSE NoneIfRaise(MkDate(IntOf(mt.g3),
                            MonthNumber(names, LowerStr(mt.g2)),
                            IntOf(mt.g1)))

\* the body of parse_russian_date for a character class and a month table
RussianDate(s, InClass, names) == RussianDateOf(RuSearch(s, InClass), names)

BI_parse_russian_date(s) == RussianDate(s, CyrLowerClass, month_mapping)

\* the date of the groups m1 of pattern1 or else m2 of pattern2
StandardDateOf(m1, m2) ==
    IF m1.ok
    THEN NoneIfRaise(MkDate(IntOf(m1.g3), IntOf(m1.g2), IntOf(m1.g1)))
    ELSE IF m2.ok
    THEN NoneIfRaise(MkDate(IntOf(m2.g1), IntOf(m2.g2), IntOf(m2.g3)))
    ELSE None

BI_parse_standard_date(s) == StandardDateOf(DmySearch(s, DOT), YmdSearch(s))

\* the unit words of parse_relative_date, in the order of its tests
BI_unit_words ==
    [days |-> << << 1076, 1077, 1085, 1100 >>, << 1076, 1085, 1103 >>, << 1076, 1085, 1077, 1081 >> >>,
     hours |-> << << 1095, 1072, 1089 >>, << 1095, 1072, 1089, 1072 >>, << 1095, 1072, 1089, 1086, 1074 >> >>,
     minutes |-> << << 1084, 1080, 1085, 1091, 1090 >> >>,
     weeks |-> << << 1085, 1077, 1076, 1077, 1083 >> >>]

ContainsAny(s, stems) == \E n \in 1..Len(stems) : Contains(s, stems[n])

\* the timedelta of the first unit found in s, as days and minutes:
\* timedelta(hours = n) is n \div 24 days and (n % 24) * 60 minutes, qr the
\* quotient and the remainder and unit the minutes of the unit
UnitDelta(qr, unit) == [days |-> qr.q, mins |-> qr.r * unit]

RelativeDelta(s, num, words) ==
    IF ContainsAny(s, words.days) THEN [days |-> IntOf(num), mins |-> 0]
    ELSE IF ContainsAny(s, words.hours) THEN UnitDelta(DivModDigits(num, 24, 0, 0), 60)
    ELSE IF ContainsAny(s, words.minutes)
        THEN UnitDelta(DivModDigits(num, MinutesPerDay, 0, 0), 1)
    ELSE IF ContainsAny(s, words.weeks) THEN [days |-> IntOf(num) * 7, mins |-> 0]
    ELSE None

\* now - timedelta; the OverflowError is caught and None returned
AgoDate(now, delta) ==
    IF delta = None THEN None
    ELSE NoneIfRaise(DtMinus(now, delta.days, delta.mins))

\* the body of parse_relative_date after numbers[0] has been read
RelativeDateOf(s, num, now, words) ==
    IF num = << >> THEN None
    ELSE AgoDate(now, RelativeDelta(s, num, words))

RelativeDate(s, now, words) ==
    RelativeDateOf(s, FirstNumber(s), now, words)

BI_parse_relative_date(s, now) ==
    RelativeDate(s, now, BI_unit_words)

\* the alternatives of the last pattern of date_patterns
BI_pattern_stems == << << 1095, 1072, 1089 >>, << 1076, 1077, 1085, 1100 >>, << 1076, 1085, 1103 >>, << 1076, 1085, 1077, 1081 >>, << 1084, 1080, 1085, 1091, 1090 >>, << 1085, 1077, 1076, 1077, 1083 >> >>

\* one of date_patterns has a match in s (re.IGNORECASE)
BI_looks_like_date(s) ==
    \/ RuSearch(s, CyrAnyCaseClass).ok
    \/ DmySearch(s, DOT).ok
    \/ DmySearch(s, SLASH).ok
    \/ YmdSearch(s).ok
    \/ DayWordFound(s, CyrAnyCaseClass)
    \/ NumStemFound(s, BI_pattern_stems)

\* a validator without the pattern of a day and a word
BI_validate_full_dates(t) ==
    IF \/ RuSearch(t, CyrAnyCaseClass).ok
       \/ DmySearch(t, DOT).ok
       \/ DmySearch(t, SLASH).ok
       \/ YmdSearch(t).ok
       \/ NumStemFound(t, BI_pattern_stems)
    THEN [k |-> "str", s |-> t] ELSE None

\* the end of clean_date_text: the text if it looks like a date
BI_validate(t) == IF BI_looks_like_date(t) THEN [k |-> "str", s |-> t] ELSE None

BI_clean_date_text(s) ==
    IF s = << >> THEN None
    ELSE BI_validate(CollapseSpaces(RemoveChars(Strip(s), IconClass)))

\* the first of the results that is a date
FirstDate(a, b, c) ==
    IF a # None THEN a ELSE IF b # None THEN b ELSE c

\* parse_date_text after clean_date_text has returned c
BI_parse_cleaned(c, now) ==
    IF c = None THEN None
    ELSE IF c.s = << >> THEN None
    ELSE FirstDate(BI_parse_russian_date(c.s),
                   BI_parse_relative_date(c.s, now),
                   BI_parse_standard_date(c.s))

BI_parse_date_text(s, now) ==
    IF s = << >> THEN None
    ELSE BI_parse_cleaned(BI_clean_date_text(s), now)

(***************************************************************************)
(* rb: RbSpider                                                            *)
(***************************************************************************)
\* the pattern and the month_mapping of rb are those of bankinform
RB_parse_russian_date(s) == RussianDate(s, CyrLowerClass, month_mapping)

(***************************************************************************)
(* plusworld: PlusworldSpider.  The non-ASCII literals of this source file *)
(* are stored as the code points below.                                    *)
(***************************************************************************)
\* the character class of the patterns: the character U+2013, the range
\* U+221E - U+2014, and the characters U+00E8, U+2014, U+00EB
PW_range_lo == 8734
PW_range_hi == 8212

\* re compiles the class only if the range is in order, otherwise re.error
PW_class_compiles == PW_range_lo <= PW_range_hi

PW_InClass ==
    {8211} \cup (PW_range_lo..PW_range_hi) \cup {232, 8212, 235}

PW_InClassAnyCase ==
    PW_InClass
        \cup {c \in (65..90) \cup (192..222) \cup (1040..1071) \cup {1025} :
                  Lower(c) \in PW_InClass}

\* the icon class of clean_date_text
PW_IconClass == {214, 232, 236, 237, 239, 252, 8218, 8734, 63743}

PW_month_mapping ==
    << << 8212, 232, 8211, 937, 8211, 8804, 8211, 8734, 8212, 196, 8212, 232 >>,
       << 8212, 209, 8211, 181, 8211, 8804, 8212, 196, 8211, 8734, 8211, 170, 8212, 232 >>,
       << 8211, 186, 8211, 8734, 8212, 196, 8212, 199, 8211, 8734 >>,
       << 8211, 8734, 8211, 248, 8212, 196, 8211, 181, 8211, 170, 8212, 232 >>,
       << 8211, 186, 8211, 8734, 8212, 232 >>,
       << 8211, 8719, 8212, 233, 8211, 937, 8212, 232 >>,
       << 8211, 8719, 8212, 233, 8211, 170, 8212, 232 >>,
       << 8211, 8734, 8211, 8804, 8211, 8805, 8212, 201, 8212, 197, 8212, 199, 8211, 8734 >>,
       << 8212, 197, 8211, 181, 8211, 937, 8212, 199, 8212, 232, 8211, 177, 8212, 196, 8212, 232 >>,
       << 8211, 230, 8211, 8747, 8212, 199, 8212, 232, 8211, 177, 8212, 196, 8212, 232 >>,
       << 8211, 937, 8211, 230, 8212, 232, 8211, 177, 8212, 196, 8212, 232 >>,
       << 8211, 165, 8211, 181, 8211, 8747, 8211, 8734, 8211, 177, 8212, 196, 8212, 232 >> >>

\* re.error is an Exception: parse_russian_date catches it and returns None
PW_parse_russian_date(s) ==
    IF ~PW_class_compiles THEN None
    ELSE RussianDate(s, PW_InClass, PW_month_mapping)


\* the unit words of parse_relative_date
PW_unit_words ==
    [days |-> << << 8211, 165, 8211, 181, 8211, 937, 8212, 229 >>, << 8211, 165, 8211, 937, 8212, 232 >>, << 8211, 165, 8211, 937, 8211, 181, 8211, 960 >> >>,
     hours |-> << << 8212, 225, 8211, 8734, 8212, 197 >>, << 8212, 225, 8211, 8734, 8212, 197, 8211, 8734 >>, << 8212, 225, 8211, 8734, 8212, 197, 8211, 230, 8211, 8804 >> >>,
     minutes |-> << << 8211, 186, 8211, 8719, 8211, 937, 8212, 201, 8212, 199 >> >>,
     weeks |-> << << 8211, 937, 8211, 181, 8211, 165, 8211, 181, 8211, 170 >> >>]

PW_parse_relative_date(s, now) ==
    RelativeDate(s, now, PW_unit_words)

\* the alternatives of the last two patterns of date_patterns
PW_pattern_stems ==
    << << 8212, 225, 8211, 8734, 8212, 197 >>,
       << 8211, 165, 8211, 181, 8211, 937, 8212, 229 >>,
       << 8211, 165, 8211, 937, 8212, 232 >>,
       << 8211, 165, 8211, 937, 8211, 181, 8211, 960 >>,
       << 8211, 186, 8211, 8719, 8211, 937, 8212, 201, 8212, 199 >>,
       << 8211, 937, 8211, 181, 8211, 165, 8211, 181, 8211, 170 >> >>
PW_english_stems == << << 104, 111, 117, 114 >>, << 100, 97, 121 >>, << 100, 97, 121, 115 >>, << 109, 105, 110, 117, 116, 101 >>, << 119, 101, 101, 107 >> >>

\* one of date_patterns has a match in s (re.IGNORECASE)
PW_looks_like_date(s) ==
    \/ RuSearch(s, PW_InClassAnyCase).ok
    \/ DmySearch(s, DOT).ok
    \/ DmySearch(s, SLASH).ok
    \/ DayWordFound(s, PW_InClassAnyCase)
    \/ NumStemFound(s, PW_pattern_stems)
    \/ NumStemFound(s, PW_english_stems)

\* the end of clean_date_text: re.search compiles the first pattern outside
\* any try, the re.error leaves clean_date_text
PW_validate(t) ==
    IF ~PW_class_compiles THEN Raise
    ELSE IF PW_looks_like_date(t) THEN [k |-> "str", s |-> t]
    ELSE None

PW_clean_date_text(s) ==
    IF s = << >> THEN None
    ELSE PW_validate(CollapseSpaces(RemoveChars(Strip(s), PW_IconClass)))

\* parse_date_text after clean_date_text has returned c: no numeric strategy
PW_parse_cleaned(c, now) ==
    IF c = None THEN None
    ELSE IF c.s = << >> THEN None
    ELSE FirstDate(PW_parse_russian_date(c.s),
                   PW_parse_relative_date(c.s, now),
                   None)

\* no try around clean_date_text: its exception leaves parse_date_text
PW_parse_date_text(s, now) ==
    IF s = << >> THEN None
    ELSE IF PW_clean_date_text(s) = Raise THEN Raise
    ELSE PW_parse_cleaned(PW_clean_date_text(s), now)

(***************************************************************************)
(* URLs: urllib.parse.urljoin of Python 3.11 and clean_url                 *)
(***************************************************************************)
QUESTION == 63

\* Python: s.startswith(prefix)
StartsWith(s, prefix) ==
    Len(s) >= Len(prefix) /\ Sub(s, 1, Len(prefix)) = prefix

TwoSlashes == << SLASH, SLASH >>

\* a Python str that a function returned
Str(s) == [k |-> "str", s |-> s]

\* the position of the first character of cls in s at or after position i,
\* Len(s) + 1 when there is none
FindFirst(s, i, cls) ==
    IF \E j \in i..Len(s) : s[j] \in cls
    THEN CHOOSE j \in i..Len(s) :
             s[j] \in cls /\ \A m \in i..(j - 1) : s[m] \notin cls
    ELSE Len(s) + 1

\* the position of the last character c in s, 0 when there is none
FindLast(s, c) ==
    IF \E j \in 1..Len(s) : s[j] = c
    THEN CHOOSE j \in 1..Len(s) :
             s[j] = c /\ \A m \in (j + 1)..Len(s) : s[m] # c
    ELSE 0

\* s.split(c)
RECURSIVE Split(_, _)
Split(s, c) ==
    IF FindFirst(s, 1, {c}) > Len(s) THEN << s >>
    ELSE << Sub(s, 1, FindFirst(s, 1, {c}) - 1) >>
         \o Split(Sub(s, FindFirst(s, 1, {c}) + 1, Len(s)), c)

\* c.join(segments)
RECURSIVE Join(_, _)
Join(segments, c) ==
    IF segments = << >> THEN << >>
    ELSE IF Len(segments) = 1 THEN segments[1]
    ELSE segments[1] \o << c >> \o Join(Tail(segments), c)

\* scheme_chars, and the ASCII letters a scheme begins with
SchemeChars == (97..122) \cup (65..90) \cup (48..57) \cup {43, 45, 46}
SchemeStart == (97..122) \cup (65..90)

\* uses_relative = ['', 'ftp', 'http', 'gopher', 'nntp', 'imap', 'wais',
\* 'file', 'https', 'shttp', 'mms', 'prospero', 'rtsp', 'rtsps', 'rtspu',
\* 'sftp', 'svn', 'svn+ssh', 'ws', 'wss']
uses_relative ==
    {<< >>,
     << 102, 116, 112 >>,
     << 104, 116, 116, 112 >>,
     << 103, 111, 112, 104, 101, 114 >>,
     << 110, 110, 116, 112 >>,
     << 105, 109, 97, 112 >>,
     << 119, 97, 105, 115 >>,
     << 102, 105, 108, 101 >>,
     << 104, 116, 116, 112, 115 >>,
     << 115, 104, 116, 116, 112 >>,
     << 109, 109, 115 >>,
     << 112, 114, 111, 115, 112, 101, 114, 111 >>,
     << 114, 116, 115, 112 >>,
     << 114, 116, 115, 112, 115 >>,
     << 114, 116, 115, 112, 117 >>,
     << 115, 102, 116, 112 >>,
     << 115, 118, 110 >>,
     << 115, 118, 110, 43, 115, 115, 104 >>,
     << 119, 115 >>,
     << 119, 115, 115 >>}

\* uses_netloc = ['', 'ftp', 'http', 'gopher', 'nntp', 'telnet', 'imap',
\* 'wais', 'file', 'mms', 'https', 'shttp', 'snews', 'prospero', 'rtsp',
\* 'rtsps', 'rtspu', 'rsync', 'svn', 'svn+ssh', 'sftp', 'nfs', 'git',
\* 'git+ssh', 'ws', 'wss']
uses_netloc ==
    {<< >>,
     << 102, 116, 112 >>,
     << 104, 116, 116, 112 >>,
     << 103, 111, 112, 104, 101, 114 >>,
     << 110, 110, 116, 112 >>,
     << 116, 101, 108, 110, 101, 116 >>,
     << 105, 109, 97, 112 >>,
     << 119, 97, 105, 115 >>,
     << 102, 105, 108, 101 >>,
     << 109, 109, 115 >>,
     << 104, 116, 116, 112, 115 >>,
     << 115, 104, 116, 116, 112 >>,
     << 115, 110, 101, 119, 115 >>,
     << 112, 114, 111, 115, 112, 101, 114, 111 >>,
     << 114, 116, 115, 112 >>,
     << 114, 116, 115, 112, 115 >>,
     << 114, 116, 115, 112, 117 >>,
     << 114, 115, 121, 110, 99 >>,
     << 115, 118, 110 >>,
     << 115, 118, 110, 43, 115, 115, 104 >>,
     << 115, 102, 116, 112 >>,
     << 110, 102, 115 >>,
     << 103, 105, 116 >>,
     << 103, 105, 116, 43, 115, 115, 104 >>,
     << 119, 115 >>,
     << 119, 115, 115 >>}

\* uses_params = ['', 'ftp', 'hdl', 'prospero', 'http', 'imap', 'https',
\* 'shttp', 'rtsp', 'rtsps', 'rtspu', 'sip', 'sips', 'mms', 'sftp', 'tel']
uses_params ==
    {<< >>,
     << 102, 116, 112 >>,
     << 104, 100, 108 >>,
     << 112, 114, 111, 115, 112, 101, 114, 111 >>,
     << 104, 116, 116, 112 >>,
     << 105, 109, 97, 112 >>,
     << 104, 116, 116, 112, 115 >>,
     << 115, 104, 116, 116, 112 >>,
     << 114, 116, 115, 112 >>,
     << 114, 116, 115, 112, 115 >>,
     << 114, 116, 115, 112, 117 >>,
     << 115, 105, 112 >>,
     << 115, 105, 112, 115 >>,
     << 109, 109, 115 >>,
     << 115, 102, 116, 112 >>,
     << 116, 101, 108 >>}

\* url.lstrip(_WHATWG_C0_CONTROL_OR_SPACE): the characters U+0000..U+0020
RECURSIVE C0LStrip(_)
C0LStrip(s) == IF s # << >> /\ Head(s) \in 0..32 THEN C0LStrip(Tail(s)) ELSE s

\* str.lower() of a text of scheme characters
SchemeLower(s) == [i \in 1..Len(s) |-> IF s[i] \in 65..90 THEN s[i] + 32 ELSE s[i]]

\* ipaddress: a hextet is one to four hexadecimal digits
HexDigits == (48..57) \cup (65..70) \cup (97..102)
IsHextet(p) == Len(p) \in 1..4 /\ \A i \in 1..Len(p) : p[i] \in HexDigits

\* ipaddress: an octet is one to three ASCII digits with no leading zero
\* and a value of at most 255
IsOctet(p) ==
    /\ Len(p) \in 1..3
    /\ \A i \in 1..Len(p) : p[i] \in 48..57
    /\ (Len(p) > 1 => p[1] # 48)
    /\ (Len(p) = 3 =>
           (p[1] - 48) * 100 + (p[2] - 48) * 10 + (p[3] - 48) <= 255)

\* ipaddress.IPv4Address(s) is constructed
IsIPv4(s) ==
    /\ Len(Split(s, DOT)) = 4
    /\ \A i \in 1..4 : IsOctet(Split(s, DOT)[i])

\* ipaddress: the parts of an IPv6 address between colons, of which the
\* one at skip is the empty part of '::': an empty part at an end stands
\* next to it, at most seven parts are left, and they are hextets
IPv6Around(parts, skip) ==
    /\ parts[1] = << >> => skip = 2
    /\ parts[Len(parts)] = << >> => skip = Len(parts) - 1
    /\ Len(parts) - 1 - (IF parts[1] = << >> THEN 1 ELSE 0)
           - (IF parts[Len(parts)] = << >> THEN 1 ELSE 0) <= 7
    /\ \A i \in 1..Len(parts) :
           \/ i = skip
           \/ i = 1 /\ parts[1] = << >>
           \/ i = Len(parts) /\ parts[Len(parts)] = << >>
           \/ IsHextet(parts[i])

\* ipaddress: the parts of an IPv6 address, skips being the positions of
\* its empty parts that are not at an end: one '::' at most, and eight
\* hextets if there is none
IPv6Skips(parts, skips) ==
    /\ Len(parts) <= 9
    /\ Cardinality(skips) <= 1
    /\ IF skips # {}
       THEN IPv6Around(parts, CHOOSE i \in skips : TRUE)
       ELSE Len(parts) = 8 /\ \A i \in 1..8 : IsHextet(parts[i])

\* ipaddress: the parts of an IPv6 address after an IPv4 suffix was
\* replaced by two hextets
IPv6Hextets(parts) ==
    IPv6Skips(parts, {i \in 2..(Len(parts) - 1) : parts[i] = << >>})

\* ipaddress: the text of an IPv6 address split at its colons: three parts
\* at least, and a last part with a '.' is an IPv4 address
IPv6Parts(p0) ==
    /\ Len(p0) >= 3
    /\ IF \E i \in 1..Len(p0[Len(p0)]) : p0[Len(p0)][i] = DOT
       THEN /\ IsIPv4(p0[Len(p0)])
            /\ IPv6Hextets(Sub(p0, 1, Len(p0) - 1) \o << << 48 >>, << 48 >> >>)
       ELSE IPv6Hextets(p0)

\* ipaddress: a scope id after '%' is not empty and has no '%'
IPv6Scope(h, pc) ==
    pc > Len(h) \/ (pc < Len(h) /\ \A i \in (pc + 1)..Len(h) : h[i] # 37)

\* ipaddress.IPv6Address(h) is constructed: the scope id is in order and
\* so is the text before it
IsIPv6(h) ==
    /\ IPv6Scope(h, FindFirst(h, 1, {37}))
    /\ IPv6Parts(Split(Sub(h, 1, FindFirst(h, 1, {37}) - 1), COLON))

\* re.match(r"\Av[a-fA-F0-9]+\..+\Z", h)
IsIPvFuture(h) ==
    /\ StartsWith(h, << 118 >>)
    /\ Run(h, 2, HexDigits) >= 1
    /\ 2 + Run(h, 2, HexDigits) < Len(h)
    /\ h[2 + Run(h, 2, HexDigits)] = DOT

\* _check_bracketed_host(h) raises ValueError
check_bracketed_host_raises(h) ==
    IF StartsWith(h, << 118 >>) THEN ~IsIPvFuture(h) ELSE ~IsIPv6(h)

\* netloc.partition('[')[2].partition(']')[0]
bracketed_host(netloc) ==
    LET after == Sub(netloc, FindFirst(netloc, 1, {91}) + 1, Len(netloc))
    IN  Sub(after, 1, FindFirst(after, 1, {93}) - 1)

\* the characters of which the NFKC form has one of '/', '?', '#', '@', ':'
\* (Unicode 14): U+2047..U+2049, U+2100, U+2101, U+2105, U+2106, U+2A74,
\* U+FE13, U+FE16, U+FE55, U+FE56, U+FE5F, U+FE6B, U+FF03, U+FF0F, U+FF1A,
\* U+FF1F, U+FF20
NfkcDelimiters ==
    {8263, 8264, 8265, 8448, 8449, 8453, 8454, 10868, 65043, 65046, 65109,
     65110, 65119, 65131, 65283, 65295, 65306, 65311, 65312}

\* _checknetloc(netloc) raises ValueError
checknetloc_raises(netloc) ==
    \E i \in 1..Len(netloc) : netloc[i] \in NfkcDelimiters

\* the tests of urlsplit on the brackets of netloc raise ValueError
brackets_raise(netloc) ==
    LET open == \E i \in 1..Len(netloc) : netloc[i] = 91
        close == \E i \in 1..Len(netloc) : netloc[i] = 93
    IN  \/ open /\ ~close
        \/ close /\ ~open
        \/ open /\ close /\ check_bracketed_host_raises(bracketed_host(netloc))

\* urlsplit: the url begins with a scheme and ':'
HasScheme(u) ==
    /\ FindFirst(u, 1, {COLON}) \in 2..Len(u)
    /\ u[1] \in SchemeStart
    /\ \A j \in 1..(FindFirst(u, 1, {COLON}) - 1) : u[j] \in SchemeChars

\* urlsplit: where the netloc of a text that begins with '//' ends
NetlocEnd(rest) == FindFirst(rest, 3, {SLASH, QUESTION, 35})

\* urlsplit after the fragment was split off: the query is what follows the
\* first '?'
urlsplit_query(scheme, netloc, url, fragment) ==
    [scheme |-> scheme,
     netloc |-> netloc,
     path |-> Sub(url, 1, FindFirst(url, 1, {QUESTION}) - 1),
     query |-> Sub(url, FindFirst(url, 1, {QUESTION}) + 1, Len(url)),
     fragment |-> fragment]

\* urlsplit after the netloc was split off: its tests of the netloc, and
\* the fragment is what follows the first '#'
urlsplit_fragment(scheme, netloc, url) ==
    IF brackets_raise(netloc) \/ checknetloc_raises(netloc) THEN Raise
    ELSE urlsplit_query(scheme, netloc,
                        Sub(url, 1, FindFirst(url, 1, {35}) - 1),
                        Sub(url, FindFirst(url, 1, {35}) + 1, Len(url)))

\* urlsplit after the scheme was split off: the netloc of a text that
\* begins with '//' reaches to the first of '/', '?' and '#'
urlsplit_netloc(scheme, url) ==
    urlsplit_fragment(
        scheme,
        IF StartsWith(url, TwoSlashes) THEN Sub(url, 3, NetlocEnd(url) - 1)
        ELSE << >>,
        IF StartsWith(url, TwoSlashes) THEN Sub(url, NetlocEnd(url), Len(url))
        ELSE url)

\* urlsplit after lstrip and the removal of tab, line feed and carriage
\* return: the scheme is what stands before the first ':', in lower case
urlsplit_scheme(url, scheme) ==
    urlsplit_netloc(
        IF HasScheme(url)
        THEN SchemeLower(Sub(url, 1, FindFirst(url, 1, {COLON}) - 1))
        ELSE scheme,
        IF HasScheme(url)
        THEN Sub(url, FindFirst(url, 1, {COLON}) + 1, Len(url))
        ELSE url)

\* urlsplit(url, scheme): scheme, netloc, path, query and fragment, or
\* ValueError. The scheme given is '' or a scheme urlsplit found, which
\* strip and replace leave as it is
urlsplit(url, scheme) ==
    urlsplit_scheme(RemoveChars(C0LStrip(url), {9, 10, 13}), scheme)

\* _splitparams(url): the path and the params after the first ';' of its
\* last segment
splitparams(url) ==
    LET i == FindFirst(url, IF FindLast(url, SLASH) > 0
                            THEN FindLast(url, SLASH) ELSE 1, {59})
    IN  IF i > Len(url) THEN << url, << >> >>
        ELSE << Sub(url, 1, i - 1), Sub(url, i + 1, Len(url)) >>

\* urlparse: the scheme has params and the path has a ';'
HasParams(r) ==
    r.scheme \in uses_params /\ \E i \in 1..Len(r.path) : r.path[i] = 59

\* urlparse on what urlsplit returned
urlparse_split(r) ==
    IF r = Raise THEN Raise
    ELSE [scheme |-> r.scheme, netloc |-> r.netloc,
          path |-> IF HasParams(r) THEN splitparams(r.path)[1] ELSE r.path,
          params |-> IF HasParams(r) THEN splitparams(r.path)[2] ELSE << >>,
          query |-> r.query, fragment |-> r.fragment]

\* urlparse(url, scheme): the parts of urlsplit and params, or ValueError
urlparse(url, scheme) == urlparse_split(urlsplit(url, scheme))

\* urlunsplit((scheme, netloc, url, query, fragment))
urlunsplit(scheme, netloc, url, query, fragment) ==
    (IF scheme # << >> THEN scheme \o << COLON >> ELSE << >>)
    \o (IF \/ netloc # << >>
           \/ (scheme # << >> /\ scheme \in uses_netloc
               /\ ~StartsWith(url, TwoSlashes))
        THEN TwoSlashes \o netloc
             \o (IF url # << >> /\ url[1] # SLASH THEN << SLASH >> ELSE << >>)
             \o url
        ELSE url)
    \o (IF query # << >> THEN << QUESTION >> \o query ELSE << >>)
    \o (IF fragment # << >> THEN << 35 >> \o fragment ELSE << >>)

\* urlunparse((scheme, netloc, url, params, query, fragment))
urlunparse(scheme, netloc, url, params, query, fragment) ==
    urlunsplit(scheme, netloc,
               IF params # << >> THEN url \o << 59 >> \o params ELSE url,
               query, fragment)

\* the segments of urljoin with '..' and '.' resolved
RECURSIVE resolved_path(_, _)
resolved_path(segments, acc) ==
    IF segments = << >> THEN acc
    ELSE resolved_path(
             Tail(segments),
             IF Head(segments) = << DOT, DOT >> THEN Sub(acc, 1, Len(acc) - 1)
             ELSE IF Head(segments) = << DOT >> THEN acc
             ELSE Append(acc, Head(segments)))

\* urljoin: the segments of the base without the last, which is kept only
\* if it is empty
base_parts(parts) ==
    IF parts[Len(parts)] # << >> THEN Sub(parts, 1, Len(parts) - 1) ELSE parts

\* urljoin: filter(None, segments[1:-1]), the empty inner segments go
filtered(segments) ==
    LET NotEmpty(seg) == seg # << >>
    IN  IF Len(segments) <= 2 THEN segments
        ELSE << segments[1] >>
             \o SelectSeq(Sub(segments, 2, Len(segments) - 1), NotEmpty)
             \o << segments[Len(segments)] >>

\* urljoin: the segments joined, an empty path being '/'
joined(segments) ==
    IF Join(segments, SLASH) = << >> THEN << SLASH >>
    ELSE Join(segments, SLASH)

\* urljoin: the path made of the segments, which ends with '/' after a last
\* segment '.' or '..'
resolve(segments) ==
    joined(resolved_path(segments, << >>)
           \o (IF segments[Len(segments)] \in {<< DOT >>, << DOT, DOT >>}
               THEN << << >> >> ELSE << >>))

\* the path of urljoin for the path of the base and the path of the url: a
\* relative path is resolved against the directory of the base and loses
\* its empty inner segments
joined_path(bpath, path) ==
    resolve(IF StartsWith(path, << SLASH >>) THEN Split(path, SLASH)
            ELSE filtered(base_parts(Split(bpath, SLASH))
                          \o Split(path, SLASH)))

\* urljoin on the parts of the base, b, and of the url, u
urljoin_parts(url, b, u) ==
    IF u = Raise THEN Raise
    ELSE IF u.scheme # b.scheme \/ u.scheme \notin uses_relative THEN Str(url)
    ELSE IF u.scheme \in uses_netloc /\ u.netloc # << >>
    THEN Str(urlunparse(u.scheme, u.netloc, u.path, u.params, u.query,
                        u.fragment))
    ELSE IF u.path = << >> /\ u.params = << >>
    THEN Str(urlunparse(u.scheme,
                        IF u.scheme \in uses_netloc THEN b.netloc ELSE u.netloc,
                        b.path, b.params,
                        IF u.query # << >> THEN u.query ELSE b.query,
                        u.fragment))
    ELSE Str(urlunparse(u.scheme,
                        IF u.scheme \in uses_netloc THEN b.netloc ELSE u.netloc,
                        joined_path(b.path, u.path),
                        u.params, u.query, u.fragment))

\* urljoin on the parts of the base: the url is parsed with the scheme of
\* the base for its default
urljoin_base(url, b) ==
    IF b = Raise THEN Raise
    ELSE urljoin_parts(url, b, urlparse(url, b.scheme))

\* urljoin(base, url) of urllib.parse: a str, or the ValueError of urlsplit
urljoin(base, url) ==
    IF base = << >> THEN Str(url)
    ELSE IF url = << >> THEN Str(base)
    ELSE urljoin_base(url, urlparse(base, << >>))

\* the literals of clean_url
HTTPS_COLON == << 104, 116, 116, 112, 115, 58 >>
HTTP == << 104, 116, 116, 112 >>

\* clean_url before its last test: the url made absolute, or the ValueError
\* of urljoin, which clean_url calls for a url that begins with '/' and for
\* one that does not begin with 'http'
AbsoluteUrl(origin, url) ==
    IF StartsWith(url, TwoSlashes) THEN Str(HTTPS_COLON \o url)
    ELSE IF StartsWith(url, << SLASH >>) \/ ~StartsWith(url, HTTP)
    THEN urljoin(origin, url)
    ELSE Str(url)

\* the last test of clean_url: the url is returned if it starts with prefix
OnSite(full_url, prefix) ==
    IF full_url = Raise THEN Raise
    ELSE IF ~StartsWith(full_url.s, prefix) THEN None
    ELSE full_url

\* a clean_url that tests the origin without the slash after it
clean_url_no_slash(origin, url) ==
    IF url = << >> THEN None
    ELSE OnSite(AbsoluteUrl(origin, url), origin)

\* clean_url of bankinform, plusworld and rb, which differ in origin only:
\* None, a str that starts with the origin and a slash, or the ValueError
\* of urljoin, which nothing catches
clean_url(origin, url) ==
    IF url = << >> THEN None
    ELSE OnSite(AbsoluteUrl(origin, url), origin \o << SLASH >>)

\* the literals of bankcnews
PERCENT_3C == << 37, 51, 67 >>
PERCENT_22 == << 37, 50, 50 >>
PERCENT_3E == << 37, 51, 69 >>
ARTICLES == << 47, 97, 114, 116, 105, 99, 108, 101, 115, 47 >>
NEWS == << 47, 110, 101, 119, 115, 47 >>
LINE == << 47, 108, 105, 110, 101, 47 >>

\* needle occurs in s at position i
OccursAt(s, i, needle) ==
    i >= 1 /\ i + Len(needle) - 1 <= Len(s) /\ Sub(s, i, i + Len(needle) - 1) = needle

\* no line feed in s[i..j], which '.' of a pattern can then match
OneLine(s, i, j) == \A m \in i..j : s[m] # 10

\* re.sub(r'%3Ca.*?href=%22', '', url): from the leftmost '%3Ca' that has
\* 'href=%22' after it on its line, the text up to the nearest one goes
RECURSIVE CN_sub_open(_)
CN_sub_open(url) ==
    LET lit == << 104, 114, 101, 102, 61 >> \o PERCENT_22
        Ends(i) == {j \in (i + 4)..Len(url) :
                       OccursAt(url, j, lit) /\ OneLine(url, i + 4, j - 1)}
        Starts == {i \in 1..Len(url) :
                      OccursAt(url, i, PERCENT_3C \o << 97 >>) /\ Ends(i) # {}}
        i0 == CHOOSE i \in Starts : \A m \in Starts : i <= m
        j0 == CHOOSE j \in Ends(i0) : \A m \in Ends(i0) : j <= m
    IN  IF Starts = {} THEN url
        ELSE Sub(url, 1, i0 - 1)
             \o CN_sub_open(Sub(url, j0 + Len(lit), Len(url)))

\* re.sub(r'%22.*%3E.*%3C/a%3E', '', url): from the leftmost '%22' that has
\* '%3E' and then '%3C/a%3E' after it on its line, the text up to the last
\* such '%3C/a%3E' goes
RECURSIVE CN_sub_close(_)
CN_sub_close(url) ==
    LET lit == PERCENT_3C \o << 47, 97 >> \o PERCENT_3E
        Ends(i) == {m \in (i + 6)..Len(url) :
                       /\ OccursAt(url, m, lit)
                       /\ OneLine(url, i + 3, m - 1)
                       /\ \E j \in (i + 3)..(m - 3) : OccursAt(url, j, PERCENT_3E)}
        Starts == {i \in 1..Len(url) :
                      OccursAt(url, i, PERCENT_22) /\ Ends(i) # {}}
        i0 == CHOOSE i \in Starts : \A m \in Starts : i <= m
        m0 == CHOOSE m \in Ends(i0) : \A j \in Ends(i0) : j <= m
    IN  IF Starts = {} THEN url
        ELSE Sub(url, 1, i0 - 1)
             \o CN_sub_close(Sub(url, m0 + Len(lit), Len(url)))

\* re.sub(r'&amp;', '&', url)
RECURSIVE CN_sub_amp(_)
CN_sub_amp(url) ==
    LET lit == << 38, 97, 109, 112, 59 >>
        i0 == CHOOSE i \in 1..Len(url) :
                  OccursAt(url, i, lit) /\ \A m \in 1..(i - 1) : ~OccursAt(url, m, lit)
    IN  IF ~Contains(url, lit) THEN url
        ELSE Sub(url, 1, i0 - 1) \o << 38 >>
             \o CN_sub_amp(Sub(url, i0 + Len(lit), Len(url)))

\* the last test of clean_url of bankcnews: None for a url that still has
\* '%3C' or '%22'
CN_unencoded(full_url) ==
    IF full_url = Raise THEN Raise
    ELSE IF Contains(full_url.s, PERCENT_3C) \/ Contains(full_url.s, PERCENT_22)
    THEN None
    ELSE full_url

\* clean_url of bankcnews: the three re.sub, the url made absolute, and None
\* for a url that still has '%3C' or '%22'; no test of the origin
CN_clean_url(origin, url) ==
    IF url = << >> THEN None
    ELSE CN_unencoded(
             AbsoluteUrl(origin, CN_sub_amp(CN_sub_close(CN_sub_open(url)))))

CN_is_valid_article_url(origin, url) ==
    /\ StartsWith(url, origin \o << SLASH >>)
    /\ (Contains(url, NEWS) \/ Contains(url, ARTICLES) \/ Contains(url, LINE))

(***************************************************************************)
(* The crawl: state                                                        *)
(***************************************************************************)
VARIABLES
    spider,          \* the spider of this run
    site,            \* the pages the site serves to this run
    clock,           \* datetime.now()
    started,         \* the reading of the clock that __init__ took
    date_threshold,  \* self.date_threshold
    pending,         \* requests yielded and not yet answered
    yielded,         \* how many requests start_requests has yielded
    suspended,       \* the listing callback suspended at a yield, if any
    last,            \* the callback that ended last: what it read and yielded
                     \* (of mckinseyy, the resume of parse that ran last)
    debug_page,      \* what the file debug_page.html holds, None if not written
    text,            \* the argument of a call of a date function
    fn,              \* the date function called on text, "none" before
    out,             \* what that call returned
    parts            \* the components text was written from

vars == << spider, site, clock, started, date_threshold, pending, yielded,
           suspended, last, debug_page, text, fn, out, parts >>

crawlVars == << spider, site, clock, started, date_threshold, pending, yielded,
                suspended, last, debug_page >>
parseVars == << text, fn, out, parts >>

\* bounds of the model
MaxCands == 2
MaxTicks == 1

\* page < 3 of the listing callbacks
MaxPage == 3
\* timedelta(days=30) of __init__
ThresholdDays == 30
\* articles_data[:15], article_links[:15]
PerPageLimit == 15
\* articles_data[7:] on page 1 of plusworld
PW_SkipFirst == 7

\* the spiders that filter by date; bankcnews has no date_threshold
Spiders == {"bankinform", "plusworld", "rb"}

\* the article links of the modelled site and the text of the date element
\* next to each (empty: the element is missing), the same on the listing
\* page and on the article's page
Links == {"recent", "boundary", "old", "prose", "nodate"}

\* the anchors every site that tries clean_url has, each in the site's own
\* article element. Five lead to the article a of the own site: abs by its
\* url, proto by '//' and the host, rel by its path, upper by its url with
\* the scheme in capitals, dslash by 'articles//a'; relb leads to the
\* article b. http, other and lookalike lead elsewhere, and the href of
\* bracket has an unclosed '[' for its host. abs and proto have a date
\* element. A listing page shows anchors of one group
CommonGroups ==
    {{"abs", "proto", "rel", "dslash", "relb"},
     {"upper", "http", "other", "lookalike", "bracket"}}

\* the groups of the site of every spider. plusworld has two bare anchors
\* with their titles as their text, plain and plain2, and two sections of
\* popular articles, popular and popular2; rb has two items whose anchor is
\* no a.news-item__title, althtml and altart, both with a date element;
\* bankcnews has line, an anchor outside its search results
SiteGroups ==
    [bankinform |-> CommonGroups,
     plusworld |-> CommonGroups
                   \cup {{"other", "plain", "plain2", "popular", "popular2"}},
     rb |-> CommonGroups \cup {{"althtml", "altart", "rel", "bracket"}},
     bankcnews |-> CommonGroups \cup {{"line", "rel", "bracket"}}]

\* the anchors of the site of every spider
SiteAnchors == [sp \in DOMAIN SiteGroups |-> UNION SiteGroups[sp]]

LinkAnchors == UNION {SiteAnchors[sp] : sp \in DOMAIN SiteAnchors}

\* the anchors a page may have as its link to the next page
NextAnchors == {"nextrel", "nextquery", "nextother", "nextbracket"}

SiteDateText ==
    [u \in Links \cup LinkAnchors |->
        CASE u \in {"recent", "abs", "proto", "althtml", "altart"} -> << 50, 48, 32, 1086, 1082, 1090, 1103, 1073, 1088, 1103, 32, 50, 48, 50, 53 >>
          [] u = "boundary" -> << 50, 55, 32, 1089, 1077, 1085, 1090, 1103, 1073, 1088, 1103, 32, 50, 48, 50, 53 >>
          [] u = "old" -> << 50, 54, 32, 1089, 1077, 1085, 1090, 1103, 1073, 1088, 1103, 32, 50, 48, 50, 53 >>
          [] u = "prose" -> << 1055, 1086, 1076, 1087, 1080, 1096, 1080, 1090, 1077, 1089, 1100, 32, 1085, 1072, 32, 1088, 1072, 1089, 1089, 1099, 1083, 1082, 1091 >>
          [] OTHER -> << >>]

\* the text of the title of every link: 'Plain article' of the bare anchors
\* of plusworld, 'Title' of every other
SiteTitle ==
    [u \in Links \cup LinkAnchors |->
        IF u \in {"plain", "plain2"} THEN << 80, 108, 97, 105, 110, 32, 97, 114, 116, 105, 99, 108, 101 >>
        ELSE << 84, 105, 116, 108, 101 >>]

\* the host of every spider's own site
Host ==
    [bankinform |-> << 98, 97, 110, 107, 105, 110, 102, 111, 114, 109, 46, 114, 117 >>,
     plusworld |-> << 112, 108, 117, 115, 119, 111, 114, 108, 100, 46, 114, 117 >>,
     rb |-> << 114, 98, 46, 114, 117 >>,
     bankcnews |-> << 119, 119, 119, 46, 99, 110, 101, 119, 115, 46, 114, 117 >>]

\* the origin of clean_url and urljoin: 'https://bankinform.ru', ...
Origin(sp) == HTTPS_COLON \o TwoSlashes \o Host[sp]

\* the paths of the own site: of the article of every link of Links, of the
\* articles a and b, of the listing, and '/news/a', '/news/b', '/article/b'
\* and '/line/2025-10-20_a'
PathOf ==
    [recent |-> << 47, 97, 114, 116, 105, 99, 108, 101, 115, 47, 114, 101, 99, 101, 110, 116 >>,
     boundary |-> << 47, 97, 114, 116, 105, 99, 108, 101, 115, 47, 98, 111, 117, 110, 100, 97, 114, 121 >>,
     old |-> << 47, 97, 114, 116, 105, 99, 108, 101, 115, 47, 111, 108, 100 >>,
     prose |-> << 47, 97, 114, 116, 105, 99, 108, 101, 115, 47, 112, 114, 111, 115, 101 >>,
     nodate |-> << 47, 97, 114, 116, 105, 99, 108, 101, 115, 47, 110, 111, 100, 97, 116, 101 >>,
     a |-> << 47, 97, 114, 116, 105, 99, 108, 101, 115, 47, 97 >>,
     b |-> << 47, 97, 114, 116, 105, 99, 108, 101, 115, 47, 98 >>,
     listing |-> << 47, 108, 105, 115, 116 >>,
     news_a |-> << 47, 110, 101, 119, 115, 47, 97 >>,
     news_b |-> << 47, 110, 101, 119, 115, 47, 98 >>,
     article_b |-> << 47, 97, 114, 116, 105, 99, 108, 101, 47, 98 >>,
     line_a |-> << 47, 108, 105, 110, 101, 47, 50, 48, 50, 53, 45, 49, 48, 45, 50, 48, 95, 97 >>]

\* search_terms of start_requests of rb: 'банк', 'финансы', 'кредит', 'банки',
\* 'финтех'; bankcnews has the first four of them
search_terms ==
    << << 1073, 1072, 1085, 1082 >>,
       << 1092, 1080, 1085, 1072, 1085, 1089, 1099 >>,
       << 1082, 1088, 1077, 1076, 1080, 1090 >>,
       << 1073, 1072, 1085, 1082, 1080 >>,
       << 1092, 1080, 1085, 1090, 1077, 1093 >> >>

\* search_term of the sections of start_requests of plusworld:
\* 'digital-banking', 'fintech', 'ai-big-data'
PW_section_terms ==
    << << 100, 105, 103, 105, 116, 97, 108, 45, 98, 97, 110, 107, 105, 110, 103 >>,
       << 102, 105, 110, 116, 101, 99, 104 >>,
       << 97, 105, 45, 98, 105, 103, 45, 100, 97, 116, 97 >> >>

\* the paths of the sections of plusworld
PW_section_paths ==
    << << 47, 100, 105, 103, 105, 116, 97, 108, 45, 98, 97, 110, 107, 105, 110, 103, 47 >>,
       << 47, 102, 105, 110, 116, 101, 104, 47 >>,
       << 47, 105, 115, 107, 117, 115, 115, 116, 118, 101, 110, 110, 121, 121, 45, 105, 110, 116, 101, 108, 108, 101, 107, 116, 45, 105, 45, 98, 105, 103, 45, 100, 97, 116, 97, 47 >> >>

\* the urls start_requests requests, in the order it yields them
start_urls ==
    [bankinform |-> << Origin("bankinform") \o << 47, 110, 101, 119, 115, 47, 116, 97, 103, 47, 50, 49, 52, 57 >> >>,
     plusworld |-> [i \in 1..Len(PW_section_paths) |->
                       Origin("plusworld") \o PW_section_paths[i]],
     rb |-> [i \in 1..Len(search_terms) |->
                Origin("rb") \o << 47, 115, 101, 97, 114, 99, 104, 47, 63, 113, 117, 101, 114, 121, 61 >> \o search_terms[i]],
     bankcnews |-> [i \in 1..(Len(search_terms) - 1) |->
                       Origin("bankcnews") \o << 47, 115, 101, 97, 114, 99, 104, 63, 115, 101, 97, 114, 99, 104, 61 >> \o search_terms[i]],
     mckinseyy |-> << << 104, 116, 116, 112, 115, 58, 47, 47, 119, 119, 119, 46, 109, 99, 107, 105, 110, 115, 101, 121, 46, 99, 111, 109, 47, 115, 101, 97, 114, 99, 104, 63, 113, 61, 98, 97, 110, 107, 43, 97, 105 >> >>]

\* meta['search_term'] of the i-th request of start_requests
StartTerm(sp, i) ==
    CASE sp = "bankinform" -> << >>
      [] sp = "plusworld" -> PW_section_terms[i]
      [] OTHER -> search_terms[i]

\* the names of the start urls
StartNames == << "start1", "start2", "start3", "start4", "start5" >>
StartIndex(n) == CHOOSE i \in 1..Len(StartNames) : StartNames[i] = n
StartNameSet == {StartNames[i] : i \in 1..Len(StartNames)}
IsStartName(n) == n \in StartNameSet

OtherHost == << 101, 118, 105, 108, 46, 101, 120, 97, 109, 112, 108, 101 >>

\* the href attribute of an anchor: a link of Links has the path of its
\* article. upper is 'HTTPS://' with the host and the path of a, dslash
\* 'articles//a', bracket and nextbracket 'HTTPS://[x/', plain
\* '/articles/../news/b', plain2 '/articles/./../news/b', popular
\* '/articles/b', popular2 '/articles/./b', nextquery '/list?'
SiteHref(sp, a) ==
    CASE a \in Links -> PathOf[a]
      [] a = "abs" -> HTTPS_COLON \o TwoSlashes \o Host[sp] \o PathOf["a"]
      [] a = "proto" -> TwoSlashes \o Host[sp] \o PathOf["a"]
      [] a = "rel" -> PathOf["a"]
      [] a = "upper" -> << 72, 84, 84, 80, 83, 58 >> \o TwoSlashes \o Host[sp] \o PathOf["a"]
      [] a = "dslash" -> << 97, 114, 116, 105, 99, 108, 101, 115, 47, 47, 97 >>
      [] a = "relb" -> PathOf["b"]
      [] a = "http" -> HTTP \o << COLON >> \o TwoSlashes \o Host[sp] \o PathOf["a"]
      [] a = "other" -> HTTPS_COLON \o TwoSlashes \o OtherHost \o PathOf["a"]
      [] a = "lookalike" ->
            HTTPS_COLON \o TwoSlashes \o Host[sp] \o << DOT >> \o OtherHost \o PathOf["a"]
      [] a \in {"bracket", "nextbracket"} -> << 72, 84, 84, 80, 83, 58, 47, 47, 91, 120, 47 >>
      [] a = "plain" -> << 47, 97, 114, 116, 105, 99, 108, 101, 115, 47, 46, 46, 47, 110, 101, 119, 115, 47, 98 >>
      [] a = "plain2" -> << 47, 97, 114, 116, 105, 99, 108, 101, 115, 47, 46, 47, 46, 46, 47, 110, 101, 119, 115, 47, 98 >>
      [] a = "popular" -> PathOf["b"]
      [] a = "popular2" -> << 47, 97, 114, 116, 105, 99, 108, 101, 115, 47, 46, 47, 98 >>
      [] a = "althtml" -> PathOf["news_a"]
      [] a = "altart" -> PathOf["article_b"]
      [] a = "line" -> PathOf["line_a"]
      [] a = "nextrel" -> PathOf["listing"]
      [] a = "nextquery" -> PathOf["listing"] \o << QUESTION >>
      [] a = "nextother" -> HTTPS_COLON \o TwoSlashes \o OtherHost \o PathOf["listing"]

\* the anchor element a as lxml writes it: '<a href="', its href, '">', its
\* title and '</a>'
AnchorHtml(sp, a) ==
    << 60, 97, 32, 104, 114, 101, 102, 61, 34 >> \o SiteHref(sp, a)
    \o << 34, 62 >> \o SiteTitle[a] \o << 60, 47, 97, 62 >>

\* the names of the urls of the model
UrlNames ==
    DOMAIN PathOf
    \cup {"http_a", "other_a", "lookalike_a", "other_list", "html_a"}

\* the url a name stands for; html_a is the url clean_url makes of the
\* element althtml
SiteUrl(sp, n) ==
    CASE n = "http_a" -> SiteHref(sp, "http")
      [] n = "other_a" -> SiteHref(sp, "other")
      [] n = "lookalike_a" -> SiteHref(sp, "lookalike")
      [] n = "other_list" -> SiteHref(sp, "nextother")
      [] n = "html_a" -> Origin(sp) \o << SLASH >> \o AnchorHtml(sp, "althtml")
      [] IsStartName(n) -> start_urls[sp][StartIndex(n)]
      [] OTHER -> Origin(sp) \o PathOf[n]

\* the name of a url
UrlId(sp, url) == CHOOSE n \in UrlNames : SiteUrl(sp, n) = url

\* what clean_url gave is a url: it is not None and clean_url did not raise
IsUrl(r) == r # None /\ r # Raise

\* a url by its name; None and Raise as they are
NamedUrl(sp, r) ==
    IF IsUrl(r) THEN [k |-> "url", id |-> UrlId(sp, r.s)] ELSE r

\* full_url of the callbacks of bankinform, plusworld and rb for every
\* anchor, and next_page of find_next_page: clean_url of the href
LinkUrl ==
    [sp \in Spiders |-> [a \in Links \cup LinkAnchors \cup NextAnchors |->
        NamedUrl(sp, clean_url(Origin(sp), SiteHref(sp, a)))]]

\* the moments at which a run may be constructed: 2025-10-27 at 00:00 and
\* at 14:23
StartClocks ==
    {[k |-> "dt", y |-> 2025, m |-> 10, d |-> 27, tod |-> t] : t \in {0, 863}}

\* the listing pages: up to MaxCands different article links and maybe a
\* next-page link
RECURSIVE SeqsUpTo(_, _)
SeqsUpTo(S, n) ==
    IF n = 0 THEN {<< >>}
    ELSE LET shorter == SeqsUpTo(S, n - 1)
         IN  shorter \cup
             UNION {{Append(q, x) : x \in S \ {q[i] : i \in 1..Len(q)}} :
                       q \in {r \in shorter : Len(r) = n - 1}}

Pages ==
    [links : SeqsUpTo(Links, MaxCands), next : BOOLEAN, nexthref : {"nextrel"}]

\* the sequences of up to MaxCands different anchors of one group
GroupLinks ==
    [sp \in DOMAIN SiteGroups |->
        UNION {SeqsUpTo(g, MaxCands) : g \in SiteGroups[sp]}]

\* the listing pages of the site that tries clean_url, for every spider
LinkPages ==
    [sp \in DOMAIN SiteGroups |->
        [links : GroupLinks[sp], next : {FALSE}, nexthref : {"nextrel"}]
        \cup [links : GroupLinks[sp], next : {TRUE}, nexthref : NextAnchors]]

\* the pages with at most one link and no next page
SectionPages ==
    [links : SeqsUpTo(Links, 1), next : {FALSE}, nexthref : {"nextrel"}]
LinkSectionPages ==
    [sp \in DOMAIN SiteAnchors |->
        [links : SeqsUpTo(SiteAnchors[sp], 1), next : {FALSE}, nexthref : {"nextrel"}]]

\* the pages with at most one link and maybe a next-page link
NextPages ==
    [links : SeqsUpTo(Links, 1), next : BOOLEAN, nexthref : {"nextrel"}]
LinkNextPages ==
    [sp \in DOMAIN SiteAnchors |->
        [links : SeqsUpTo(SiteAnchors[sp], 1), next : {FALSE}, nexthref : {"nextrel"}]
        \cup [links : SeqsUpTo(SiteAnchors[sp], 1), next : {TRUE}, nexthref : NextAnchors]]

\* the pages the site of this run may answer a listing request with
SitePages == IF site = "links" THEN LinkPages[spider] ELSE Pages

\* a request: its callback, its url and, of its meta, page, article_date and
\* search_term (the empty text where the meta has none)
ListRequest(p, u, t) ==
    [cb |-> "list", url |-> u, page |-> p, date |-> None, term |-> t]
ArticleRequest(u, d, t) ==
    [cb |-> "article", url |-> u, page |-> 0, date |-> d, term |-> t]

\* the record of a callback: the page number of a listing callback, its
\* candidates and the urls it requested, whether it raised, whether the page
\* had a link to a next page, the anchors of the page and its anchor to the
\* next page; of an article callback its url, the value of its variable
\* article_date and the dict it yielded
NoItem == [url |-> "none", article_date |-> None, record |-> << >>]
NoCallback ==
    [cb |-> "none", page |-> 0, cands |-> << >>, reqs |-> << >>,
     raised |-> FALSE, next |-> FALSE, links |-> << >>, nexthref |-> "none",
     item |-> NoItem]
ListingRun(p, cands, reqs, raised, page) ==
    [cb |-> "list", page |-> p, cands |-> cands, reqs |-> reqs,
     raised |-> raised, next |-> page.next, links |-> page.links,
     nexthref |-> IF page.next THEN page.nexthref ELSE "none",
     item |-> NoItem]
ArticleRun(item) ==
    [cb |-> "article", page |-> 0, cands |-> << >>, reqs |-> << >>,
     raised |-> FALSE, next |-> FALSE, links |-> << >>, nexthref |-> "none",
     item |-> item]

\* a request of the start_requests that scrapy.Spider gives mckinseyy for a
\* url of start_urls: its callback is parse and it has no meta
ParseRequest(u) ==
    [cb |-> "parse", url |-> u, page |-> 0, date |-> None, term |-> << >>]

\* the record of a resume of parse of mckinseyy, with the status and the
\* elements of the page it read (page is the status, links the elements):
\* of a resume that yielded, the item; of the resume that ended the
\* callback, whether an exception ended it
ParseRun(status, elements, raised, item) ==
    [cb |-> "parse", page |-> status, cands |-> << >>, reqs |-> << >>,
     raised |-> raised, next |-> FALSE, links |-> elements,
     nexthref |-> "none", item |-> item]

\* the frame of a suspended listing callback: the requests it has yet to
\* yield and the record of its run. A callback that has yielded its last
\* request is still suspended there, with nothing left to yield; NoFrame
\* when no callback is suspended
NoFrame == [rest |-> << >>, run |-> NoCallback]

\* a resume of a listing callback that has the requests ys yet to yield,
\* the requests of keep being out. With a request left it runs to its next
\* yield, hands ys[1] to the engine and is suspended there. With none left
\* it runs to its end, through the rest of the loop, the test of the page
\* number and the search for the next page, where clean_url or urljoin may
\* raise: the generator is closed and its run is recorded
Yield(keep, ys, run) ==
    IF ys = << >>
    THEN pending' = keep /\ last' = run /\ suspended' = NoFrame
    ELSE /\ pending' = keep \cup {Head(ys)}
         /\ last' = last
         /\ suspended' = [rest |-> Tail(ys), run |-> run]

\* the first resume of the callback of the request req
FirstYield(req, ys, run) == Yield(pending \ {req}, ys, run)

\* a later resume of the suspended callback
Resume == suspended # NoFrame /\ Yield(pending, suspended.rest, suspended.run)

\* the article requests of a listing callback, in the order it yields them
ArticleRequests(reqs, term) ==
    [i \in 1..Len(reqs) |-> ArticleRequest(reqs[i].url, reqs[i].date, term)]

\* the first n elements
Take(q, n) == Sub(q, 1, IF Len(q) < n THEN Len(q) ELSE n)

\* the clock one minute later
DtPlusMinute(dt) ==
    IF dt.tod + 1 < MinutesPerDay THEN [dt EXCEPT !.tod = dt.tod + 1]
    ELSE WithTod(FromOrdinal(DtOrd(dt) + 1), 0)

\* the values the clock takes in the model
RECURSIVE LaterClocks(_, _)
LaterClocks(c, n) ==
    IF n = 0 THEN {c} ELSE {c} \cup LaterClocks(DtPlusMinute(c), n - 1)

ClockValues == UNION {LaterClocks(c, MaxTicks) : c \in StartClocks}

\* minutes from a to b
MinutesBetween(a, b) ==
    (DtOrd(b) - DtOrd(a)) * MinutesPerDay + b.tod - a.tod

\* __init__: date_threshold = datetime.now() - timedelta(days=30)
InitThreshold(now) == DtMinus(now, ThresholdDays, 0)

Init ==
    /\ spider \in Spiders \cup {"bankcnews", "mckinseyy"}
    /\ site = "dated"
    /\ clock \in StartClocks
    /\ started = clock
    /\ date_threshold = IF spider \in Spiders THEN InitThreshold(clock) ELSE None
    /\ pending = {}
    /\ yielded = 0
    /\ suspended = NoFrame
    /\ last = NoCallback
    /\ debug_page = None
    /\ text = << >>
    /\ fn = "none"
    /\ out = None
    /\ parts = [shape |-> "none"]

\* time passes
Tick ==
    /\ MinutesBetween(started, clock) < MaxTicks
    /\ clock' = DtPlusMinute(clock)
    /\ UNCHANGED << spider, site, started, date_threshold, pending, yielded,
                    suspended, last >>
    /\ UNCHANGED debug_page
    /\ UNCHANGED parseVars

\* the pages the site answers the listing request req with: page 1 of the
\* first start url has the pages of SitePages, page 1 of every other start
\* url has at most one link and no next page, and a page after page 1 has at
\* most one link
AnswerPages(req) ==
    IF req.url = StartNames[1]
    THEN SitePages
    ELSE IF IsStartName(req.url)
         THEN IF site = "links" THEN LinkSectionPages[spider] ELSE SectionPages
         ELSE IF site = "links" THEN LinkNextPages[spider] ELSE NextPages

\* the engine is idle: no request is out and no callback is suspended.
\* CONCURRENT_REQUESTS being 1 in the custom_settings of every spider, the
\* engine takes the next request of start_requests when it is idle
EngineIdle == pending = {} /\ suspended = NoFrame

\* start_requests resumed once: it yields the request for page 1 of its
\* next start url and is suspended there. mckinseyy has the start_requests
\* of scrapy.Spider, which yields the request for its next start url with
\* the callback parse
start_requests ==
    /\ EngineIdle
    /\ yielded < Len(start_urls[spider])
    /\ yielded' = yielded + 1
    /\ pending' = {IF spider = "mckinseyy"
                    THEN ParseRequest(StartNames[yielded + 1])
                    ELSE ListRequest(1, StartNames[yielded + 1],
                                     StartTerm(spider, yielded + 1))}
    /\ UNCHANGED << spider, site, clock, started, date_threshold, suspended,
                    last >>
    /\ UNCHANGED debug_page
    /\ UNCHANGED parseVars

(***************************************************************************)
(* The crawl: bankinform                                                   *)
(***************************************************************************)
\* article_date of extract_articles_with_data for the link u read at the
\* time now, tabulated over the links and the clock values of the model
BI_link_date ==
    [u \in Links \cup LinkAnchors |-> [now \in ClockValues |->
        IF SiteDateText[u] # << >>
        THEN BI_parse_date_text(SiteDateText[u], now)
        ELSE None]]

\* the links of which full_url is a url
WithUrl(sp, links) ==
    LET Ok(a) == IsUrl(LinkUrl[sp][a]) IN SelectSeq(links, Ok)

\* url, title and date of the articles of the links with a full_url, the
\* title of a link being its name
BI_articles_data(links, now) ==
    [i \in 1..Len(links) |->
        [url |-> LinkUrl["bankinform"][links[i]].id, title |-> links[i],
         date |-> BI_link_date[links[i]][now]]]

\* extract_articles_with_data: url, title and date of every article link
\* that clean_url gives a url for
BI_extract_articles_with_data(links, now) ==
    BI_articles_data(WithUrl("bankinform", links), now)

\* clean_url raises on a link of the page: its ValueError leaves
\* extract_articles_with_data, which has no try around it
BI_extract_raises(links) ==
    \E i \in 1..Len(links) : LinkUrl["bankinform"][links[i]] = Raise

\* find_next_page of bankinform and plusworld and next_url of rb: clean_url
\* of the href of the page's anchor to the next page
find_next_page(sp, page) ==
    IF page.next THEN LinkUrl[sp][page.nexthref] ELSE None

\* the request for the next page, if next_page is a url
NextRequest(req, next_page) ==
    IF IsUrl(next_page)
    THEN << ListRequest(req.page + 1, next_page.id, req.term) >>
    ELSE << >>

\* the yields of a listing callback that found the candidates cands: the
\* article requests ys, for the urls of urls, and then the request for
\* next_page if that is a url. An exception of clean_url on the way to
\* next_page leaves the callback after its article requests
ListYields(req, page, cands, ys, urls, next_page) ==
    FirstYield(req, ys \o NextRequest(req, next_page),
               ListingRun(req.page, cands, urls, next_page = Raise, page))

\* a listing callback that an exception leaves before its first yield
RaisedRun(req, page) ==
    FirstYield(req, << >>, ListingRun(req.page, << >>, << >>, TRUE, page))

\* a filter that also turns away a date equal to the threshold
BI_is_recent_strict(date, threshold) ==
    date = None \/ (DtGE(date, threshold) /\ date # threshold)

\* the condition under which parse_article_list requests an article
BI_is_recent(date, threshold) == date = None \/ DtGE(date, threshold)

\* the urls of the article requests parse_article_list yields, in order
BI_article_requests(cands, threshold) ==
    LET Ok(c) == BI_is_recent(c.date, threshold) IN SelectSeq(cands, Ok)

\* a callback that follows the next-page link whatever the page number
BI_list_yield_unbounded(req, page, cands, reqs) ==
    ListYields(req, page, cands, ArticleRequests(reqs, req.term),
               [i \in 1..Len(reqs) |-> reqs[i].url],
               IF Len(cands) > 0
               THEN find_next_page("bankinform", page) ELSE None)

\* the yields of parse_article_list: a request for every candidate of
\* cands that passed the filter, reqs, and then the request for the next
\* page. The filter reads date_threshold before every yield; no step
\* assigns it, so reqs is what the filter passes at each of them
BI_list_yield(req, page, cands, reqs) ==
    ListYields(req, page, cands, ArticleRequests(reqs, req.term),
               [i \in 1..Len(reqs) |-> reqs[i].url],
               IF req.page < MaxPage /\ Len(cands) > 0
               THEN find_next_page("bankinform", page) ELSE None)

BI_list_filter(req, page, cands) ==
    BI_list_yield(req, page, cands, BI_article_requests(cands, date_threshold))

\* parse_article_list run on the answer to req, a page of the site: an
\* exception of extract_articles_with_data leaves it before its first yield
BI_list_step(req, page) ==
    IF BI_extract_raises(page.links) THEN RaisedRun(req, page)
    ELSE BI_list_filter(req, page,
                        BI_extract_articles_with_data(page.links, clock))

\* a callback that computes the threshold again from the clock
BI_parse_article_list_recomputes ==
    /\ spider = "bankinform"
    /\ \/ /\ suspended = NoFrame
          /\ \E req \in pending :
                 /\ req.cb = "list"
                 /\ \E page \in AnswerPages(req) : BI_list_step(req, page)
       \/ Resume
    /\ date_threshold' = InitThreshold(clock)
    /\ UNCHANGED << spider, site, clock, started, yielded >>
    /\ UNCHANGED debug_page
    /\ UNCHANGED parseVars

BI_parse_article_list ==
    /\ spider = "bankinform"
    /\ \/ /\ suspended = NoFrame
          /\ \E req \in pending :
                 /\ req.cb = "list"
                 /\ \E page \in AnswerPages(req) : BI_list_step(req, page)
       \/ Resume
    /\ UNCHANGED << spider, site, clock, started, date_threshold, yielded >>
    /\ UNCHANGED debug_page
    /\ UNCHANGED parseVars

\* the dict parse_article yields for the request req at the time now
BI_item(req, now) ==
    [url |-> req.url, article_date |-> req.date,
     record |-> [title |-> "title", url |-> req.url,
                 search_term |-> << 98, 97, 110, 107, 105, 110, 102, 111, 114, 109, 45, 102, 105, 110, 116, 101, 99, 104 >>,
                 description |-> "description",
                 article_date |-> IsoOrNone(req.date),
                 scraped_at |-> isoformat(now)]]

\* parse_article: the record carries the date of the listing page
BI_parse_article ==
    /\ spider = "bankinform"
    /\ \E req \in pending :
           /\ req.cb = "article"
           /\ pending' = pending \ {req}
           /\ last' = ArticleRun(BI_item(req, clock))
    /\ UNCHANGED << spider, site, clock, started, date_threshold, yielded,
                    suspended >>
    /\ UNCHANGED debug_page
    /\ UNCHANGED parseVars

(***************************************************************************)
(* The crawl: plusworld                                                    *)
(***************************************************************************)
\* the element a link of a page of plusworld is: a card, a bare anchor, or
\* a section of popular articles that holds one anchor. The title of the
\* link is the text of the anchor and, in a card, of its .card__title
PW_kind(a) ==
    CASE a \in {"plain", "plain2"} -> "anchor"
      [] a \in {"popular", "popular2"} -> "section"
      [] OTHER -> "card"

\* article_date of Methods 1 and 3 of extract_articles_with_dates for the
\* link u read at the time now, tabulated over the links and the clock
\* values of the model
PW_link_date ==
    [u \in Links \cup LinkAnchors |-> [now \in ClockValues |->
        IF SiteDateText[u] # << >>
        THEN PW_parse_date_text(SiteDateText[u], now)
        ELSE None]]

\* find_date_near_element on what clean_date_text returned: a text that is
\* not empty
PW_found_date(clean_date) ==
    IF clean_date \in {None, Raise} THEN clean_date
    ELSE IF clean_date.s = << >> THEN None
    ELSE clean_date

\* find_date_near_element for the text s of the span next to a link
PW_find_date_near_element(s) ==
    IF s = << >> THEN None ELSE PW_found_date(PW_clean_date_text(s))

\* article_date of Method 2 for what find_date_near_element returned:
\* parse_date_text of it
PW_parse_found(date_text, now) ==
    IF date_text \in {None, Raise} THEN date_text
    ELSE PW_parse_date_text(date_text.s, now)

\* article_date of Method 2 for the link u read at the time now
PW_near_date ==
    [u \in Links \cup LinkAnchors |-> [now \in ClockValues |->
        PW_parse_found(PW_find_date_near_element(SiteDateText[u]), now)]]

\* what Method 1 keeps of full_url: a url with '/articles/' in it
PW_articles_only(full_url) ==
    IF ~IsUrl(full_url) THEN full_url
    ELSE IF Contains(SiteUrl("plusworld", full_url.id), ARTICLES) THEN full_url
    ELSE None

\* full_url of a card as Method 1 keeps it
PW_card_url ==
    [a \in Links \cup LinkAnchors |->
        PW_articles_only(LinkUrl["plusworld"][a])]

\* Method 1: for every card of the page its title, the date parse_date_text
\* gives, which is computed before the url, and its full_url
PW_extract_cards(links, now) ==
    LET Card(a) == PW_kind(a) = "card"
        cards == SelectSeq(links, Card)
    IN  [i \in 1..Len(cards) |->
            [url |-> PW_card_url[cards[i]], title |-> cards[i],
             date |-> PW_link_date[cards[i]][now]]]

\* Method 2: for every anchor with '/articles/' in its href and a text of
\* more than 10 characters its title, the date found near it and its
\* full_url, which it keeps whatever its path
PW_extract_links(links, now) ==
    LET Titled(a) == /\ Contains(SiteHref("plusworld", a), ARTICLES)
                     /\ Len(Strip(SiteTitle[a])) > 10
        anchors == SelectSeq(links, Titled)
    IN  [i \in 1..Len(anchors) |->
            [url |-> LinkUrl["plusworld"][anchors[i]], title |-> anchors[i],
             date |-> PW_near_date[anchors[i]][now]]]

\* Method 3: for every section of popular articles whose anchor has
\* '/articles/' in its href and a text its title, its date and its full_url
PW_extract_sections(links, now) ==
    LET Section(a) == /\ PW_kind(a) = "section"
                      /\ Contains(SiteHref("plusworld", a), ARTICLES)
                      /\ Strip(SiteTitle[a]) # << >>
        sections == SelectSeq(links, Section)
    IN  [i \in 1..Len(sections) |->
            [url |-> LinkUrl["plusworld"][sections[i]], title |-> sections[i],
             date |-> PW_link_date[sections[i]][now]]]

\* what a method appends to articles_data: the elements that have a url
PW_articles_data(cards) ==
    LET Ok(c) == IsUrl(c.url)
        kept == SelectSeq(cards, Ok)
    IN  [i \in 1..Len(kept) |->
            [url |-> kept[i].url.id, title |-> kept[i].title,
             date |-> kept[i].date]]

\* parse_date_text, find_date_near_element or clean_url raised on an
\* element of a method
PW_raises(found) ==
    \E i \in 1..Len(found) : found[i].date = Raise \/ found[i].url = Raise

\* articles_data of extract_articles_with_dates before the removal of
\* duplicates: Method 2 runs if Method 1 appended nothing and Method 3 if
\* Method 2 appended nothing either
PW_extract_articles_with_dates(cards, anchors, sections) ==
    IF PW_articles_data(cards) # << >> THEN PW_articles_data(cards)
    ELSE IF PW_articles_data(anchors) # << >> THEN PW_articles_data(anchors)
    ELSE PW_articles_data(sections)

\* an exception leaves extract_articles_with_dates: a method that runs
\* raises
PW_extract_raises(cards, anchors, sections) ==
    \/ PW_raises(cards)
    \/ /\ PW_articles_data(cards) = << >>
       /\ \/ PW_raises(anchors)
          \/ /\ PW_articles_data(anchors) = << >>
             /\ PW_raises(sections)

\* an extract_articles_with_dates that removes no duplicates
PW_keep_all(cands, seen) == cands

\* unique_articles: the first article of every url, in order
RECURSIVE PW_unique_articles(_, _)
PW_unique_articles(cands, seen) ==
    IF cands = << >> THEN << >>
    ELSE IF Head(cands).url \in seen THEN PW_unique_articles(Tail(cands), seen)
    ELSE << Head(cands) >>
         \o PW_unique_articles(Tail(cands), seen \cup {Head(cands).url})

PW_is_recent(date, threshold) == date = None \/ DtGE(date, threshold)

PW_article_requests(cands, threshold) ==
    LET Ok(c) == PW_is_recent(c.date, threshold)
    IN  SelectSeq(Take(cands, PerPageLimit), Ok)

\* the yields of parse_article_list: a request for every candidate of
\* cands that passed the filter, reqs, and then the request for the next
\* page
PW_list_yield(req, page, cands, reqs) ==
    ListYields(req, page, cands, ArticleRequests(reqs, req.term),
               [i \in 1..Len(reqs) |-> reqs[i].url],
               IF req.page < MaxPage /\ Len(cands) > 0
               THEN find_next_page("plusworld", page) ELSE None)

PW_list_filter(req, page, cands) ==
    PW_list_yield(req, page, cands, PW_article_requests(cands, date_threshold))

\* the first 7 articles are skipped on page 1
PW_list_skip(req, page, uniq) ==
    PW_list_filter(req, page,
                   IF req.page = 1 /\ Len(uniq) > PW_SkipFirst
                   THEN Sub(uniq, PW_SkipFirst + 1, Len(uniq)) ELSE uniq)

\* parse_article_list on what the three methods read; an exception of
\* extract_articles_with_dates leaves the callback before it yields anything
PW_list_cards(req, page, cards, anchors, sections) ==
    IF PW_extract_raises(cards, anchors, sections) THEN RaisedRun(req, page)
    ELSE PW_list_skip(req, page,
                      PW_unique_articles(
                          PW_extract_articles_with_dates(cards, anchors,
                                                         sections), {}))

\* parse_article_list run on the answer to req
PW_list_step(req, page) ==
    PW_list_cards(req, page,
                  PW_extract_cards(page.links, clock),
                  PW_extract_links(page.links, clock),
                  PW_extract_sections(page.links, clock))

PW_parse_article_list ==
    /\ spider = "plusworld"
    /\ \/ /\ suspended = NoFrame
          /\ \E req \in pending :
                 /\ req.cb = "list"
                 /\ \E page \in AnswerPages(req) : PW_list_step(req, page)
       \/ Resume
    /\ UNCHANGED << spider, site, clock, started, date_threshold, yielded >>
    /\ UNCHANGED debug_page
    /\ UNCHANGED parseVars

\* the dict parse_article yields for the request req at the time now
PW_item(req, now) ==
    [url |-> req.url, article_date |-> req.date,
     record |-> [title |-> "title", url |-> req.url,
                 search_term |-> req.term,
                 description |-> "description",
                 article_date |-> IsoOrNone(req.date),
                 scraped_at |-> isoformat(now)]]

PW_parse_article ==
    /\ spider = "plusworld"
    /\ \E req \in pending :
           /\ req.cb = "article"
           /\ pending' = pending \ {req}
           /\ last' = ArticleRun(PW_item(req, clock))
    /\ UNCHANGED << spider, site, clock, started, date_threshold, yielded,
                    suspended >>
    /\ UNCHANGED debug_page
    /\ UNCHANGED parseVars

(***************************************************************************)
(* The crawl: rb                                                           *)
(***************************************************************************)
\* article_date of parse_search_results and of parse_article for the date
\* element of the link u, tabulated over the links of the model
RB_link_date ==
    [u \in Links \cup LinkAnchors |->
        IF SiteDateText[u] # << >>
        THEN RB_parse_russian_date(Strip(SiteDateText[u]))
        ELSE None]

\* the item a link of a page of rb is: one whose anchor is an
\* a.news-item__title, or one whose anchor has no class
RB_kind(a) == IF a \in {"althtml", "altart"} THEN "untitled" ELSE "titled"

\* link of the first loop for the item a. The href of its
\* a.news-item__title; with no such anchor, the first match of
\* 'a[href*="/news/"], a[href*="/article/"]::attr(href)', which is the
\* element itself, as lxml writes it, for an anchor with '/news/' in its
\* href, and the href for another anchor with '/article/' in it
RB_link(a) ==
    IF RB_kind(a) = "titled" THEN Str(SiteHref("rb", a))
    ELSE IF Contains(SiteHref("rb", a), NEWS) THEN Str(AnchorHtml("rb", a))
    ELSE IF Contains(SiteHref("rb", a), << 47, 97, 114, 116, 105, 99, 108, 101, 47 >>)
    THEN Str(SiteHref("rb", a))
    ELSE None

\* full_url of the item a: clean_url of its link
RB_full_url ==
    [a \in Links \cup LinkAnchors |->
        IF RB_link(a) = None THEN None
        ELSE NamedUrl("rb", clean_url(Origin("rb"), RB_link(a).s))]

\* the items of the page: of every one its full_url, its date and whether
\* its anchor is an a.news-item__title
RB_items(links) ==
    [i \in 1..Len(links) |->
        [url |-> RB_full_url[links[i]], date |-> RB_link_date[links[i]],
         titled |-> RB_kind(links[i]) = "titled"]]

\* url and date of the items that have a url
RB_item_dates(items) ==
    LET Ok(c) == IsUrl(c.url)
        kept == SelectSeq(items, Ok)
    IN  [i \in 1..Len(kept) |-> [url |-> kept[i].url.id, date |-> kept[i].date]]

\* the anchor whose date element the page of the article with the url u has
ArticleAnchor(u) == IF u \in Links THEN u ELSE IF u = "a" THEN "abs" ELSE "rel"

\* the date of an item is known and not before the threshold: the first
\* loop calls clean_url on the link of such an item only
RB_is_recent(date, threshold) == date # None /\ DtGE(date, threshold)

\* the first loop: the urls of the items whose date is known and recent
RECURSIVE RB_dated_links(_, _, _)
RB_dated_links(items, threshold, acc) ==
    IF items = << >> THEN acc
    ELSE LET c == Head(items)
             take == /\ RB_is_recent(c.date, threshold)
                     /\ IsUrl(c.url)
                     /\ \A i \in 1..Len(acc) : acc[i] # c.url.id
         IN  RB_dated_links(Tail(items), threshold,
                            IF take THEN Append(acc, c.url.id) ELSE acc)

\* the fallback loop: the url of every a.news-item__title of the page
RECURSIVE RB_all_links(_, _)
RB_all_links(items, acc) ==
    IF items = << >> THEN acc
    ELSE LET c == Head(items)
             take == /\ c.titled
                     /\ IsUrl(c.url)
                     /\ \A i \in 1..Len(acc) : acc[i] # c.url.id
         IN  RB_all_links(Tail(items),
                          IF take THEN Append(acc, c.url.id) ELSE acc)

\* if the first loop found nothing, the fallback
RB_or_fallback(dated, items) ==
    IF dated # << >> THEN dated ELSE RB_all_links(items, << >>)

\* article_links after both loops
RB_article_links(items, threshold) ==
    RB_or_fallback(RB_dated_links(items, threshold, << >>), items)

\* clean_url raises in a loop: in the first on the link of a recent item,
\* or, the first having found nothing, in the fallback on an
\* a.news-item__title
RB_links_raise(items, threshold) ==
    \/ \E i \in 1..Len(items) :
           RB_is_recent(items[i].date, threshold) /\ items[i].url = Raise
    \/ /\ RB_dated_links(items, threshold, << >>) = << >>
       /\ \E i \in 1..Len(items) : items[i].titled /\ items[i].url = Raise

\* the yields of parse_search_results: a request for every url of reqs and
\* then the request for the next page
RB_list_yield(req, page, cands, reqs) ==
    ListYields(req, page, cands,
               [i \in 1..Len(reqs) |-> ArticleRequest(reqs[i], None, req.term)],
               reqs,
               IF req.page < MaxPage THEN find_next_page("rb", page) ELSE None)

\* parse_search_results on the items of the page: the ValueError of
\* clean_url leaves it before its first yield
RB_list_links(req, page, items) ==
    IF RB_links_raise(items, date_threshold) THEN RaisedRun(req, page)
    ELSE RB_list_yield(req, page, RB_item_dates(items),
                       Take(RB_article_links(items, date_threshold),
                            PerPageLimit))

\* parse_search_results run on the answer to req, a page of the site
RB_list_step(req, page) == RB_list_links(req, page, RB_items(page.links))

RB_parse_search_results ==
    /\ spider = "rb"
    /\ \/ /\ suspended = NoFrame
          /\ \E req \in pending :
                 /\ req.cb = "list"
                 /\ \E page \in AnswerPages(req) : RB_list_step(req, page)
       \/ Resume
    /\ UNCHANGED << spider, site, clock, started, date_threshold, yielded >>
    /\ UNCHANGED debug_page
    /\ UNCHANGED parseVars

\* the dict parse_article yields for the request req whose page gives the
\* date: it has no key scraped_at
RB_item(req, date) ==
    [url |-> req.url, article_date |-> date,
     record |-> [title |-> "title", url |-> req.url,
                 search_term |-> req.term,
                 description |-> "description",
                 article_date |-> IsoOrNone(date)]]

\* parse_article: the date is read again from the article's page
RB_parse_article ==
    /\ spider = "rb"
    /\ \E req \in pending :
           /\ req.cb = "article"
           /\ pending' = pending \ {req}
           /\ last' = ArticleRun(RB_item(req,
                                          RB_link_date[ArticleAnchor(req.url)]))
    /\ UNCHANGED << spider, site, clock, started, date_threshold, yielded,
                    suspended >>
    /\ UNCHANGED debug_page
    /\ UNCHANGED parseVars

(***************************************************************************)
(* The crawl: bankcnews (CnewsSpider), which reads no dates                *)
(***************************************************************************)
\* page < 2 of parse_search_results
CN_MaxPage == 2
\* article_links[:10]
CN_PerPageLimit == 10

\* the anchor a link of a page of bankcnews is: one of the search results,
\* or one outside them
CN_kind(a) == IF a = "line" THEN "outside" ELSE "result"

\* the url of an anchor if clean_url gives one and is_valid_article_url
\* accepts it, else None; Raise if clean_url raises
CN_valid_url(clean) ==
    IF ~IsUrl(clean) THEN clean
    ELSE IF CN_is_valid_article_url(Origin("bankcnews"), clean.s)
    THEN NamedUrl("bankcnews", clean)
    ELSE None

\* the same for every anchor of the model
CN_link_url ==
    [a \in Links \cup LinkAnchors |->
        CN_valid_url(CN_clean_url(Origin("bankcnews"),
                                  SiteHref("bankcnews", a)))]

\* the names of the urls of urls, in order
CN_url_ids(urls) ==
    LET kept == SelectSeq(urls, IsUrl)
    IN  [i \in 1..Len(kept) |-> kept[i].id]

\* article_links of the first method: the anchors of the search results and
\* those with '/news/' or '/articles/' in their href
CN_search_items(links) ==
    LET Item(a) == \/ CN_kind(a) = "result"
                   \/ Contains(SiteHref("bankcnews", a), NEWS)
                   \/ Contains(SiteHref("bankcnews", a), ARTICLES)
        urls == [i \in 1..Len(links) |->
                    IF Item(links[i]) THEN CN_link_url[links[i]] ELSE None]
    IN  CN_url_ids(urls)

\* the anchors of a page, its anchor to the next page included: the text
\* of the page writes the href of every one as it is between double quotes
CN_page_anchors(page) ==
    page.links \o (IF page.next THEN << page.nexthref >> ELSE << >>)

\* what a url pattern of the second method, which begins with prefix,
\* finds in an href: prefix, \d{4}-\d{2}-\d{2}_ and one or more characters
\* other than quotes, white space and '>', up to a quote; None if it does
\* not match
CN_pattern_match(href, prefix) ==
    LET d == Sub(href, Len(prefix) + 1, Len(prefix) + 11)
        body == Sub(href, Len(prefix) + 12, Len(href))
        n == FindFirst(body, 1, {34, 39, 62} \cup SpaceClass) - 1
    IN  IF /\ StartsWith(href, prefix)
           /\ Len(href) >= Len(prefix) + 12
           /\ \A i \in {1, 2, 3, 4, 6, 7, 9, 10} : d[i] \in DigitClass
           /\ d[5] = DASH /\ d[8] = DASH /\ d[11] = 95
           /\ n >= 1
           /\ (n = Len(body) \/ body[n + 1] \in {34, 39})
        THEN Str(Sub(href, 1, Len(prefix) + 11 + n))
        ELSE None

\* clean_url of what a pattern found; None if it did not match
CN_clean_match(match) ==
    IF match = None THEN None
    ELSE NamedUrl("bankcnews", CN_clean_url(Origin("bankcnews"), match.s))

\* clean_url of what the pattern that begins with prefix finds in the href
\* of the anchor a, tabulated over the anchors of the model
CN_match_url ==
    [a \in Links \cup LinkAnchors \cup NextAnchors |->
        [prefix \in {NEWS, ARTICLES, LINE} |->
            CN_clean_match(CN_pattern_match(SiteHref("bankcnews", a), prefix))]]

\* the loop of the second method over re.findall of a pattern in the text
\* of the page: clean_url of a match is appended if it is a url that
\* article_links has not
CN_add_match(clean, article_links) ==
    IF /\ IsUrl(clean)
       /\ \A i \in 1..Len(article_links) : article_links[i] # clean.id
    THEN Append(article_links, clean.id)
    ELSE article_links

\* the loop over the anchors of the page that the pattern finds
RECURSIVE CN_add_matches(_, _, _)
CN_add_matches(anchors, prefix, article_links) ==
    IF anchors = << >> THEN article_links
    ELSE CN_add_matches(Tail(anchors), prefix,
                        CN_add_match(CN_match_url[Head(anchors)][prefix],
                                     article_links))

\* article_links after the second method, which tries the patterns of
\* '/news/', '/articles/' and '/line/' in this order
CN_pattern_links(anchors, article_links) ==
    CN_add_matches(
        anchors, LINE,
        CN_add_matches(
            anchors, ARTICLES,
            CN_add_matches(anchors, NEWS, article_links)))

\* clean_url raises in one of the two methods: on an anchor of the first,
\* or on a match of a pattern of the second
CN_links_raise(links, anchors) ==
    LET Item(a) == \/ CN_kind(a) = "result"
                   \/ Contains(SiteHref("bankcnews", a), NEWS)
                   \/ Contains(SiteHref("bankcnews", a), ARTICLES)
    IN  \/ \E i \in 1..Len(links) :
               Item(links[i]) /\ CN_link_url[links[i]] = Raise
        \/ \E prefix \in {NEWS, ARTICLES, LINE} :
               \E i \in 1..Len(anchors) :
                   CN_match_url[anchors[i]][prefix] = Raise

\* next_url: urljoin of the href of the anchor to the next page
CN_next_url ==
    [a \in NextAnchors |->
        NamedUrl("bankcnews",
                 urljoin(Origin("bankcnews"), SiteHref("bankcnews", a)))]

\* list(set(article_links)): the links of the page without duplicates, in
\* any order
CN_article_links(links) ==
    {q \in SeqsUpTo({links[i] : i \in 1..Len(links)}, Len(links)) :
        Len(q) = Cardinality({links[i] : i \in 1..Len(links)})}

\* the yields of parse_search_results: a request for every url of reqs and
\* then the request for the next page
CN_list_yield(req, page, links, reqs) ==
    ListYields(req, page,
               [i \in 1..Len(links) |-> [url |-> links[i], date |-> None]],
               [i \in 1..Len(reqs) |-> ArticleRequest(reqs[i], None, req.term)],
               reqs,
               IF req.page < CN_MaxPage /\ page.next
               THEN CN_next_url[page.nexthref] ELSE None)

\* parse_search_results after both methods found links
CN_list_links(req, page, links) ==
    \E order \in CN_article_links(links) :
        CN_list_yield(req, page, links, Take(order, CN_PerPageLimit))

\* parse_search_results run on the answer to req, a page of the site: the
\* ValueError of clean_url leaves it before its first yield
CN_list_step(req, page) ==
    IF CN_links_raise(page.links, CN_page_anchors(page)) THEN RaisedRun(req, page)
    ELSE CN_list_links(req, page,
                       CN_pattern_links(CN_page_anchors(page),
                                        CN_search_items(page.links)))

CN_parse_search_results ==
    /\ spider = "bankcnews"
    /\ \/ /\ suspended = NoFrame
          /\ \E req \in pending :
                 /\ req.cb = "list"
                 /\ \E page \in AnswerPages(req) : CN_list_step(req, page)
       \/ Resume
    /\ UNCHANGED << spider, site, clock, started, date_threshold, yielded >>
    /\ UNCHANGED debug_page
    /\ UNCHANGED parseVars

\* the dict parse_article yields: it has no date and no scraped_at
CN_item(req) ==
    [url |-> req.url, article_date |-> None,
     record |-> [title |-> "title", url |-> req.url,
                 search_term |-> req.term,
                 description |-> "description"]]

CN_parse_article ==
    /\ spider = "bankcnews"
    /\ \E req \in pending :
           /\ req.cb = "article"
           /\ pending' = pending \ {req}
           /\ last' = ArticleRun(CN_item(req))
    /\ UNCHANGED << spider, site, clock, started, date_threshold, yielded,
                    suspended >>
    /\ UNCHANGED debug_page
    /\ UNCHANGED parseVars

(***************************************************************************)
(* The crawl: mckinseyy (McKinseySpider), which reads one search page      *)
(***************************************************************************)
\* the elements a search page of the model is written from, each a div with
\* a class attribute, a heading, an anchor and a paragraph:
\*   <div class="C"><H>heading</H><a class="A" href="href">link</a>
\*   <p class="P">text</p></div>
\* A heading "h3.headline" is written <h3 class="headline">, an anchor or a
\* paragraph of class "plain" has no class attribute, and a part that is
\* "none" is left out. An anchor of class item-title-link has 'item' in its
\* class, so the alternative selectors select it too; it holds no heading
\* and they pass it by
MK_Elements ==
    {"full", "second", "untitled", "plainlink", "bracket", "alt", "four", "altbracket", "card"}

\* the class attribute of the div: 'item result-template',
\* 'result-template item', 'article-card', 'news-item', 'search-result',
\* 'card'
MK_class ==
    [full |-> << 105, 116, 101, 109, 32, 114, 101, 115, 117, 108, 116, 45, 116, 101, 109, 112, 108, 97, 116, 101 >>,
     second |-> << 105, 116, 101, 109, 32, 114, 101, 115, 117, 108, 116, 45, 116, 101, 109, 112, 108, 97, 116, 101 >>,
     untitled |-> << 105, 116, 101, 109, 32, 114, 101, 115, 117, 108, 116, 45, 116, 101, 109, 112, 108, 97, 116, 101 >>,
     plainlink |-> << 114, 101, 115, 117, 108, 116, 45, 116, 101, 109, 112, 108, 97, 116, 101, 32, 105, 116, 101, 109 >>,
     bracket |-> << 105, 116, 101, 109, 32, 114, 101, 115, 117, 108, 116, 45, 116, 101, 109, 112, 108, 97, 116, 101 >>,
     alt |-> << 97, 114, 116, 105, 99, 108, 101, 45, 99, 97, 114, 100 >>,
     four |-> << 110, 101, 119, 115, 45, 105, 116, 101, 109 >>,
     altbracket |-> << 115, 101, 97, 114, 99, 104, 45, 114, 101, 115, 117, 108, 116 >>,
     card |-> << 99, 97, 114, 100 >>]

MK_heading_tag ==
    [full |-> "h3.headline",
     second |-> "h3.headline",
     untitled |-> "none",
     plainlink |-> "h3.headline",
     bracket |-> "none",
     alt |-> "h3",
     four |-> "h4",
     altbracket |-> "h4",
     card |-> "h3"]

\* the text of the heading: ' Banks and AI ', 'Second', 'Third', 'Alt',
\* ' Four ', 'Bad', 'Card'
MK_heading_text ==
    [full |-> << 32, 66, 97, 110, 107, 115, 32, 97, 110, 100, 32, 65, 73, 32 >>,
     second |-> << 83, 101, 99, 111, 110, 100 >>,
     untitled |-> << >>,
     plainlink |-> << 84, 104, 105, 114, 100 >>,
     bracket |-> << >>,
     alt |-> << 65, 108, 116 >>,
     four |-> << 32, 70, 111, 117, 114, 32 >>,
     altbracket |-> << 66, 97, 100 >>,
     card |-> << 67, 97, 114, 100 >>]

MK_anchor_class ==
    [full |-> "item-title-link",
     second |-> "item-title-link",
     untitled |-> "item-title-link",
     plainlink |-> "plain",
     bracket |-> "item-title-link",
     alt |-> "plain",
     four |-> "plain",
     altbracket |-> "plain",
     card |-> "plain"]

\* the href of the anchor: '/featured-insights/a',
\* 'https://www.mckinsey.com/b', '/b', 'e', 'HTTPS://[x/', '/c',
\* 'HTTPS://www.mckinsey.com/d/../f', '/g'
MK_anchor_href ==
    [full |-> << 47, 102, 101, 97, 116, 117, 114, 101, 100, 45, 105, 110, 115, 105, 103, 104, 116, 115, 47, 97 >>,
     second |-> << 104, 116, 116, 112, 115, 58, 47, 47, 119, 119, 119, 46, 109, 99, 107, 105, 110, 115, 101, 121, 46, 99, 111, 109, 47, 98 >>,
     untitled |-> << 47, 98 >>,
     plainlink |-> << 101 >>,
     bracket |-> << 72, 84, 84, 80, 83, 58, 47, 47, 91, 120, 47 >>,
     alt |-> << 47, 99 >>,
     four |-> << 72, 84, 84, 80, 83, 58, 47, 47, 119, 119, 119, 46, 109, 99, 107, 105, 110, 115, 101, 121, 46, 99, 111, 109, 47, 100, 47, 46, 46, 47, 102 >>,
     altbracket |-> << 72, 84, 84, 80, 83, 58, 47, 47, 91, 120, 47 >>,
     card |-> << 47, 103 >>]

MK_p_class ==
    [full |-> "description",
     second |-> "none",
     untitled |-> "description",
     plainlink |-> "plain",
     bracket |-> "none",
     alt |-> "plain",
     four |-> "none",
     altbracket |-> "plain",
     card |-> "plain"]

\* the text of the paragraph: ' About banks. ', 'No title', 120 times 'x',
\* 'text'
MK_p_text ==
    [full |-> << 32, 65, 98, 111, 117, 116, 32, 98, 97, 110, 107, 115, 46, 32 >>,
     second |-> << >>,
     untitled |-> << 78, 111, 32, 116, 105, 116, 108, 101 >>,
     plainlink |-> [i \in 1..120 |-> 120],
     bracket |-> << >>,
     alt |-> << 116, 101, 120, 116 >>,
     four |-> << >>,
     altbracket |-> << 116, 101, 120, 116 >>,
     card |-> << 116, 101, 120, 116 >>]

\* the words of the class attribute of the div
MK_class_words(e) ==
    {Split(MK_class[e], SP)[i] : i \in 1..Len(Split(MK_class[e], SP))}

\* response.css('.item.result-template') selects the element e
MK_is_result(e) ==
    /\ << 105, 116, 101, 109 >> \in MK_class_words(e)
    /\ << 114, 101, 115, 117, 108, 116, 45, 116, 101, 109, 112, 108, 97, 116, 101 >> \in MK_class_words(e)

\* item.css('h3.headline::text').get()
MK_title(e) ==
    IF MK_heading_tag[e] = "h3.headline" /\ MK_heading_text[e] # << >>
    THEN Str(MK_heading_text[e])
    ELSE None

\* item.css('a.item-title-link::attr(href)').get()
MK_url(e) ==
    IF MK_anchor_class[e] = "item-title-link" THEN Str(MK_anchor_href[e])
    ELSE None

\* item.css('p.description::text').get('').strip()
MK_description(e) ==
    IF MK_p_class[e] = "description" THEN Strip(MK_p_text[e]) ELSE << >>

\* response.urljoin(url): urljoin of the url of the response, which is the
\* url of start_urls, the page having no base element, and url
MK_response_urljoin(url) == urljoin(start_urls["mckinseyy"][1], url)

\* url after 'if url and not url.startswith('http')': joined to the url of
\* the response, Raise if urljoin raises
MK_absolute(url) ==
    IF url = None THEN None
    ELSE IF url.s # << >> /\ ~StartsWith(url.s, HTTP)
    THEN MK_response_urljoin(url.s)
    ELSE url

\* the dict parse and try_alternative_selectors yield
MK_item(title, url, description) ==
    [k |-> "item", title |-> title, url |-> url, description |-> description]

\* what a loop does with an element that has the title title and of which
\* the url, made absolute, is url: an exception of urljoin leaves the
\* callback, and with a title and a url that are not empty the loop yields
MK_result_of(title, url, description) ==
    IF url = Raise THEN Raise
    ELSE IF title # None /\ url # None
    THEN IF title.s # << >> /\ url.s # << >>
         THEN MK_item(Strip(title.s), url.s, description)
         ELSE None
    ELSE None

\* the loop of parse on every element of the model: parse makes the url
\* absolute before it looks at the title
MK_result ==
    [e \in MK_Elements |->
        IF MK_is_result(e)
        THEN MK_result_of(MK_title(e), MK_absolute(MK_url(e)),
                          MK_description(e))
        ELSE None]

\* response.css('[class*="article"], [class*="result"], [class*="item"]')
\* selects the element e
MK_is_article(e) ==
    \/ Contains(MK_class[e], << 97, 114, 116, 105, 99, 108, 101 >>)
    \/ Contains(MK_class[e], << 114, 101, 115, 117, 108, 116 >>)
    \/ Contains(MK_class[e], << 105, 116, 101, 109 >>)

\* article.css('h1, h2, h3, h4::text').get(): of an h3 the element as lxml
\* writes it, of an h4 its text
MK_alt_title(e) ==
    CASE MK_heading_tag[e] = "h3.headline" ->
            Str(<< 60, 104, 51, 32, 99, 108, 97, 115, 115, 61, 34, 104, 101, 97, 100, 108, 105, 110, 101, 34, 62 >> \o MK_heading_text[e] \o << 60, 47, 104, 51, 62 >>)
      [] MK_heading_tag[e] = "h3" ->
            Str(<< 60, 104, 51, 62 >> \o MK_heading_text[e] \o << 60, 47, 104, 51, 62 >>)
      [] MK_heading_tag[e] = "h4" /\ MK_heading_text[e] # << >> ->
            Str(MK_heading_text[e])
      [] OTHER -> None

\* article.css('a::attr(href)').get()
MK_alt_link(e) ==
    IF MK_anchor_class[e] = "none" THEN None ELSE Str(MK_anchor_href[e])

\* article.css('p::text').get('').strip()[:100]
MK_alt_description(e) ==
    IF MK_p_class[e] = "none" THEN << >>
    ELSE Take(Strip(MK_p_text[e]), 100)

\* link of try_alternative_selectors: made absolute only under
\* 'if title and link'
MK_alt_absolute(title, link) ==
    IF title # None /\ link # None
    THEN IF title.s # << >> /\ link.s # << >> THEN MK_absolute(link)
         ELSE None
    ELSE None

\* the loop of try_alternative_selectors on every element of the model
MK_alternative ==
    [e \in MK_Elements |->
        IF MK_is_article(e)
        THEN MK_result_of(MK_alt_title(e),
                          MK_alt_absolute(MK_alt_title(e), MK_alt_link(e)),
                          MK_alt_description(e))
        ELSE None]

\* what a loop did before an exception left it, results being what it does
\* with every element of the page in turn
RECURSIVE MK_before_raise(_)
MK_before_raise(results) ==
    IF results = << >> THEN << >>
    ELSE IF Head(results) = Raise THEN << >>
    ELSE << Head(results) >> \o MK_before_raise(Tail(results))

\* the items a loop yields, in order
MK_yielded(results) ==
    LET Item(r) == r # None IN SelectSeq(MK_before_raise(results), Item)

\* an exception left the loop
MK_raised(results) == \E i \in 1..Len(results) : results[i] = Raise

\* response.text of the page written from the elements elements
MK_response_text(elements) == [k |-> "text", elements |-> elements]

\* a resume of parse that has the items of items yet to yield, run being the
\* record of its end: it runs to its next yield and is suspended there, or
\* with no item left it runs to its end, and try_alternative_selectors, if
\* it ended without an exception, has written the text of the response to
\* debug_page.html
MK_Yield(keep, items, run, saved) ==
    /\ pending' = keep
    /\ IF items = << >>
       THEN /\ last' = run
            /\ suspended' = NoFrame
            /\ debug_page' = IF saved THEN MK_response_text(run.links)
                                       ELSE debug_page
       ELSE /\ last' = ParseRun(run.page, run.links, FALSE, Head(items))
            /\ suspended' = [rest |-> Tail(items), run |-> run,
                             saved |-> saved]
            /\ debug_page' = debug_page

\* try_alternative_selectors on a page with the elements elements: the
\* items of its loop, and then the file
MK_try_alternative_selectors(keep, elements, found) ==
    MK_Yield(keep, MK_yielded(found),
             ParseRun(200, elements, MK_raised(found), NoItem),
             ~MK_raised(found))

\* parse after its loop, which did results with the elements of the page:
\* the items of the loop, and with results_found == 0 the alternative
\* selectors
MK_parse_results(keep, elements, results, found) ==
    IF MK_raised(results) \/ MK_yielded(results) # << >>
    THEN MK_Yield(keep, MK_yielded(results),
                  ParseRun(200, elements, MK_raised(results), NoItem), FALSE)
    ELSE MK_try_alternative_selectors(keep, elements, found)

\* parse called on a response with the status status and the elements
\* elements: a status other than 200 ends it
MK_parse_response(keep, status, elements) ==
    IF status # 200
    THEN MK_Yield(keep, << >>, ParseRun(status, elements, FALSE, NoItem), FALSE)
    ELSE MK_parse_results(keep, elements,
                          [i \in 1..Len(elements) |-> MK_result[elements[i]]],
                          [i \in 1..Len(elements) |->
                              MK_alternative[elements[i]]])

\* the search pages: a status and up to MaxCands different elements
MK_Pages == [status : {200, 204}, elements : SeqsUpTo(MK_Elements, MaxCands)]

\* parse: one resume of the generator, the first or a later one
MK_parse ==
    /\ spider = "mckinseyy"
    /\ \/ /\ suspended = NoFrame
          /\ \E req \in pending :
                 /\ req.cb = "parse"
                 /\ \E page \in MK_Pages :
                        MK_parse_response(pending \ {req}, page.status,
                                          page.elements)
       \/ /\ suspended # NoFrame
          /\ MK_Yield(pending, suspended.rest, suspended.run, suspended.saved)
    /\ UNCHANGED << spider, site, clock, started, date_threshold, yielded >>
    /\ UNCHANGED parseVars

\* the callbacks the engine runs on the answers to the pending requests. A
\* callback is a generator, and a step is one resume of it: the run from
\* its call, or from the yield it is suspended at, to its next yield or to
\* its end. An article callback has one yield, its item, and ends there. A
\* listing callback reads its response and the clock before its first
\* yield; between two of its resumes the clock moves and the callbacks of
\* the requests it has yielded run. parse of mckinseyy yields items and no
\* request
Callbacks ==
    \/ BI_parse_article_list
    \/ BI_parse_article
    \/ PW_parse_article_list
    \/ PW_parse_article
    \/ RB_parse_search_results
    \/ RB_parse_article
    \/ CN_parse_search_results
    \/ CN_parse_article
    \/ MK_parse

Next ==
    \/ Tick
    \/ start_requests
    \/ BI_parse_article_list
    \/ BI_parse_article
    \/ PW_parse_article_list
    \/ PW_parse_article
    \/ RB_parse_search_results
    \/ RB_parse_article
    \/ CN_parse_search_results
    \/ CN_parse_article
    \/ MK_parse

Spec == Init /\ [][Next]_vars

\* a run on the site that tries clean_url, its clock standing still
InitLinks ==
    /\ spider \in Spiders \cup {"bankcnews"}
    /\ site = "links"
    /\ clock \in {c \in StartClocks : c.tod = 0}
    /\ started = clock
    /\ date_threshold = IF spider \in Spiders THEN InitThreshold(clock) ELSE None
    /\ pending = {}
    /\ yielded = 0
    /\ suspended = NoFrame
    /\ last = NoCallback
    /\ debug_page = None
    /\ text = << >>
    /\ fn = "none"
    /\ out = None
    /\ parts = [shape |-> "none"]

NextLinks ==
    \/ start_requests
    \/ BI_parse_article_list
    \/ BI_parse_article
    \/ PW_parse_article_list
    \/ PW_parse_article
    \/ RB_parse_search_results
    \/ RB_parse_article
    \/ CN_parse_search_results
    \/ CN_parse_article

SpecLinks == InitLinks /\ [][NextLinks]_vars

\* a request was answered or issued: the pending requests changed, or the
\* suspended callback did
Answered == << pending, suspended >>' # << pending, suspended >>

\* a callback can run exactly when a request is pending or a callback is
\* suspended
CallbackEnabledIffPending == (~EngineIdle) <=> ENABLED << Callbacks >>_vars

\* the steps that change the pending requests or the suspended callback are
\* start_requests and the callbacks, and each of them changes one of the two
AnsweredIsEngineStep ==
    [][Answered <=> (start_requests \/ Callbacks)]_vars

\* weak fairness of the callbacks, WF_vars(Callbacks), written out with the
\* two equivalences above: again and again the engine is idle, or again and
\* again a request is answered
CallbackFairness == []<>EngineIdle \/ []<><< Answered >>_vars

\* the engine calls start_requests and answers every pending request
SpecFair == Spec /\ WF_vars(start_requests) /\ CallbackFairness

(***************************************************************************)
(* Calls of the date functions on written texts                            *)
(***************************************************************************)
\* bounds of the written texts
MaxDayTok == 32
MaxMonthTok == 13

\* the month words: the twelve genitive names, then the tenth capitalised
\* and the nominative of the tenth
MonthWords ==
    month_mapping \o << << 1054, 1082, 1090, 1103, 1073, 1088, 1103 >>,
                        << 1086, 1082, 1090, 1103, 1073, 1088, 1100 >> >>

\* the month a word names when read without regard to case, 0 for none
MonthOfWord(w) == IF w <= 12 THEN w ELSE IF w = 13 THEN 10 ELSE 0

TextYears == {0, 1900, 2000, 2024, 2025}
NumericYears == {0, 2024, 2025}

AGO == << 1085, 1072, 1079, 1072, 1076 >>

\* the numbers and the unit words of the relative texts
RelNumbers ==
    << << 48 >>,
       << 49 >>,
       << 51 >>,
       << 51, 48 >>,
       << 51, 49 >>,
       << 52, 53 >>,
       << 49, 52, 52, 48 >>,
       << 55, 51, 57, 53, 53, 53 >>,
       << 57, 57, 57, 57, 57, 57, 57, 57, 57, 57, 57, 57, 57, 57, 57, 57, 57, 57, 57, 57 >> >>
RelWords ==
    << << 1076, 1077, 1085, 1100 >>,  \* den',
       << 1076, 1085, 1103 >>,  \* dnya,
       << 1076, 1085, 1077, 1081 >>,  \* dney,
       << 1095, 1072, 1089 >>,  \* chas,
       << 1095, 1072, 1089, 1072 >>,  \* chasa,
       << 1095, 1072, 1089, 1086, 1074 >>,  \* chasov,
       << 1084, 1080, 1085, 1091, 1090 >>,  \* minut,
       << 1085, 1077, 1076, 1077, 1083, 1080 >>,  \* nedeli,
       << 100, 97, 121, 115 >>,  \* days,
       << 1083, 1077, 1090 >> >>  \* let

\* other texts
RawTexts ==
    << <<  >>,  \* empty,
       << 32 >>,  \* space,
       << 1055, 1086, 1076, 1087, 1080, 1096, 1080, 1090, 1077, 1089, 1100, 32, 1085, 1072, 32, 1088, 1072, 1089, 1089, 1099, 1083, 1082, 1091 >>,  \* prose,
       << 50, 55, 32, 1086, 1082, 1090, 1103, 1073, 1088, 1103 >>,  \* day and month,
       << 51, 32, 1095, 1072, 1089, 1072, 32, 1080, 32, 53, 32, 1076, 1085, 1077, 1081 >>,  \* hours and days,
       << 51, 50, 46, 49, 51, 46, 50, 48, 50, 53, 32, 50, 48, 50, 53, 45, 49, 48, 45, 50, 55 >>,  \* bad dotted then dashed,
       << 1076, 1085, 1103, 32, 51 >>,  \* stem before number,
       << 9200, 32, 50, 55, 32, 1086, 1082, 1090, 1103, 1073, 1088, 1103, 32, 50, 48, 50, 53 >>,  \* icon first,
       << 50, 55, 32, 1086, 1082, 1090, 1103, 1073, 1088, 1103, 32, 50, 48, 50, 53, 32, 128197 >>,  \* icon last,
       << 50, 55, 9, 10, 1086, 1082, 1090, 1103, 1073, 1088, 1103, 32, 32, 32, 50, 48, 50, 53 >>,  \* tab newline spaces,
       << 51, 49, 48, 32, 1084, 1072, 1088, 1090, 1072, 32, 50, 48, 50, 53 >>,  \* three digit day,
       << 50, 55, 46, 49, 48, 46, 50, 48, 50, 53, 32, 51, 32, 1076, 1085, 1103 >>,  \* dotted then days,
       << 51, 49, 32, 1092, 1077, 1074, 1088, 1072, 1083, 1103, 32, 50, 48, 50, 53, 32, 51, 32, 1076, 1085, 1103, 32, 1085, 1072, 1079, 1072, 1076 >>,  \* bad russian then days ago,
       << 57, 57, 57, 57, 57, 57, 57, 57, 57, 57, 57, 57, 57, 57, 57, 57, 57, 57, 57, 57, 32, 1076, 1085, 1077, 1081, 32, 1085, 1072, 1079, 1072, 1076, 32, 50, 55, 46, 49, 48, 46, 50, 48, 50, 53 >>,  \* huge days then dotted,
       << 51, 49, 32, 1092, 1077, 1074, 1088, 1072, 1083, 1103, 32, 50, 48, 50, 53, 32, 50, 55, 46, 49, 48, 46, 50, 48, 50, 53 >>,  \* bad russian then dotted,
       << 50, 55, 47, 49, 48, 47, 50, 48, 50, 53 >>,  \* slashed,
       << 53, 32, 100, 97, 121, 115, 32, 97, 103, 111 >>,  \* english,
       << 50, 55, 32, 1054, 1050, 1058, 1071, 1041, 1056, 1071, 32, 50, 48, 50, 53 >>,  \* upper case,
       << 50, 55, 32, 1086, 1082, 1090, 1103, 1073, 1088, 1103, 32, 50, 48, 50, 53, 53 >>,  \* five digit year,
       << 49, 48, 48, 32, 1088, 1091, 1073, 1083, 1077, 1081, 32, 1079, 1072, 32, 1076, 1077, 1085, 1100 >>,  \* number and far stem,
       << 50, 48, 50, 53, 45, 49, 48, 45, 50, 55 >>,  \* dashed,
       << 49, 48, 48, 48, 48, 48, 48, 48, 48, 48, 32, 1084, 1080, 1085, 1091, 1090, 32, 1085, 1072, 1079, 1072, 1076 >>,  \* huge minutes,
       << 50, 55, 32, 102, 111, 111, 32, 50, 48, 50, 53 >> >>  \* latin word

Written(shape, d, m, y, pad) ==
    [shape |-> shape, d |-> d, m |-> m, y |-> y, pad |-> pad]

\* what a text is written from: day, month word and year; day and month
\* word with no year; day, month and year with dots; year, month and day
\* with dashes; a number, a unit word and "ago" (d the number, m the word);
\* one of the other texts (d)
WrittenParts ==
    {Written("ru", d, m, y, pad) :
        d \in 0..MaxDayTok, m \in 1..Len(MonthWords), y \in TextYears,
        pad \in 1..2}
    \cup {Written("dm", d, m, 0, pad) :
        d \in 0..MaxDayTok, m \in 1..Len(MonthWords), pad \in 1..2}
    \cup {Written(sh, d, m, y, pad) :
        sh \in {"dmy", "ymd"}, d \in 0..MaxDayTok, m \in 0..MaxMonthTok,
        y \in NumericYears, pad \in 1..2}
    \cup {Written("rel", d, m, 0, 1) :
        d \in 1..Len(RelNumbers), m \in 1..Len(RelWords)}
    \cup {Written("raw", d, 0, 0, 1) : d \in 1..Len(RawTexts)}

TextOf(p) ==
    CASE p.shape = "ru" ->
            ZeroPad(NumStr(p.d), p.pad) \o << SP >> \o MonthWords[p.m]
            \o << SP >> \o ZeroPad(NumStr(p.y), 4)
      [] p.shape = "dm" ->
            ZeroPad(NumStr(p.d), p.pad) \o << SP >> \o MonthWords[p.m]
      [] p.shape = "dmy" ->
            ZeroPad(NumStr(p.d), p.pad) \o << DOT >> \o ZeroPad(NumStr(p.m), p.pad)
            \o << DOT >> \o ZeroPad(NumStr(p.y), 4)
      [] p.shape = "ymd" ->
            ZeroPad(NumStr(p.y), 4) \o << DASH >> \o ZeroPad(NumStr(p.m), p.pad)
            \o << DASH >> \o ZeroPad(NumStr(p.d), p.pad)
      [] p.shape = "rel" ->
            RelNumbers[p.d] \o << SP >> \o RelWords[p.m] \o << SP >> \o AGO
      [] p.shape = "raw" -> RawTexts[p.d]

\* the moments at which the run of a call may be constructed: those of
\* StartClocks and 2025-10-27 at 23:59
CallStartClocks ==
    StartClocks \cup {[k |-> "dt", y |-> 2025, m |-> 10, d |-> 27, tod |-> 1439]}

\* a text is written; started is the clock reading of __init__ and clock the
\* reading at the time of the call, which a text with no relative date does
\* not depend on; no crawl is running
InitParse ==
    /\ spider = "none"
    /\ site = "none"
    /\ parts \in WrittenParts
    /\ started \in IF parts.shape \in {"rel", "raw"} THEN CallStartClocks
                   ELSE {CHOOSE c \in StartClocks : c.tod = 0}
    /\ clock \in IF parts.shape \in {"rel", "raw"}
                 THEN LaterClocks(started, MaxTicks) ELSE {started}
    /\ date_threshold = InitThreshold(started)
    /\ pending = {}
    /\ yielded = 0
    /\ suspended = NoFrame
    /\ last = NoCallback
    /\ debug_page = None
    /\ text = TextOf(parts)
    /\ fn = "none"
    /\ out = None

\* the call f(text) returned r
Called(f, r) ==
    /\ fn = "none"
    /\ fn' = f
    /\ out' = r
    /\ UNCHANGED << text, parts >>
    /\ UNCHANGED crawlVars

Call_BI_parse_date_text == Called("BI_parse_date_text", BI_parse_date_text(text, clock))
Call_BI_clean_date_text == Called("BI_clean_date_text", BI_clean_date_text(text))
Call_BI_parse_russian_date == Called("BI_parse_russian_date", BI_parse_russian_date(text))
Call_BI_parse_relative_date ==
    Called("BI_parse_relative_date", BI_parse_relative_date(text, clock))
Call_BI_parse_standard_date == Called("BI_parse_standard_date", BI_parse_standard_date(text))
Call_PW_parse_date_text == Called("PW_parse_date_text", PW_parse_date_text(text, clock))
Call_PW_clean_date_text == Called("PW_clean_date_text", PW_clean_date_text(text))
Call_PW_parse_russian_date == Called("PW_parse_russian_date", PW_parse_russian_date(text))
Call_PW_parse_relative_date ==
    Called("PW_parse_relative_date", PW_parse_relative_date(text, clock))
Call_RB_parse_russian_date == Called("RB_parse_russian_date", RB_parse_russian_date(text))

NextParse ==
    \/ Call_BI_parse_date_text
    \/ Call_BI_clean_date_text
    \/ Call_BI_parse_russian_date
    \/ Call_BI_parse_relative_date
    \/ Call_BI_parse_standard_date
    \/ Call_PW_parse_date_text
    \/ Call_PW_clean_date_text
    \/ Call_PW_parse_russian_date
    \/ Call_PW_parse_relative_date
    \/ Call_RB_parse_russian_date

SpecParse == InitParse /\ [][NextParse]_vars

(***************************************************************************)
(* Properties                                                              *)
(***************************************************************************)
\* a >= b read off the fields of the two datetimes
NotBefore(a, b) ==
    \/ a.y > b.y
    \/ a.y = b.y /\ a.m > b.m
    \/ a.y = b.y /\ a.m = b.m /\ a.d > b.d
    \/ a.y = b.y /\ a.m = b.m /\ a.d = b.d /\ a.tod >= b.tod

\* the listing callback requested the url
Requested(u) == \E j \in 1..Len(last.reqs) : last.reqs[j] = u

\* C1: on a listing page of bankinform and plusworld a candidate whose date
\* was parsed is requested if and only if its date is not before the
\* threshold; a date equal to the threshold is requested
C1_RecencyFilter ==
    (last.cb = "list" /\ spider \in {"bankinform", "plusworld"}) =>
        \A i \in 1..Len(last.cands) :
            IsDt(last.cands[i].date) =>
                (Requested(last.cands[i].url)
                    <=> NotBefore(last.cands[i].date, date_threshold))

\* a listing of bankinform with a candidate dated exactly the threshold that
\* was requested and a candidate dated before it that was not
C1_Witness ==
    /\ spider = "bankinform" /\ last.cb = "list"
    /\ \E i \in 1..Len(last.cands) :
           /\ last.cands[i].date = date_threshold
           /\ Requested(last.cands[i].url)
    /\ \E i \in 1..Len(last.cands) :
           /\ IsDt(last.cands[i].date)
           /\ ~NotBefore(last.cands[i].date, date_threshold)
           /\ ~Requested(last.cands[i].url)

\* C2: in bankinform, plusworld and rb a candidate of a listing page whose
\* date is absent or was not parsed is requested, whatever else is on the
\* page
C2_UnknownDatesKept ==
    last.cb = "list" =>
        \A i \in 1..Len(last.cands) :
            ~IsDt(last.cands[i].date) => Requested(last.cands[i].url)

\* C3: a candidate that the listing callback found older than the threshold
\* is not requested by that callback, its fallback included
C3_RejectedDropped ==
    last.cb = "list" =>
        \A i \in 1..Len(last.cands) :
            (IsDt(last.cands[i].date)
             /\ ~NotBefore(last.cands[i].date, date_threshold))
                => ~Requested(last.cands[i].url)

\* C4: every record an article callback yields with a date has a date that
\* is not before the threshold
C4_ItemsRecent ==
    (last.cb = "article" /\ IsDt(last.item.article_date)) =>
        NotBefore(last.item.article_date, date_threshold)

\* C5: a candidate dated the calendar day of the threshold is requested at
\* whatever time of day the run was constructed, and a candidate dated the
\* day before is not
C5_CalendarDayBoundary ==
    (last.cb = "list" /\ spider \in {"bankinform", "plusworld"}) =>
        \A i \in 1..Len(last.cands) :
            LET c == last.cands[i] IN
            IsDt(c.date) =>
                /\ (c.date.y = date_threshold.y /\ c.date.m = date_threshold.m
                    /\ c.date.d = date_threshold.d) => Requested(c.url)
                /\ (DtOrd(c.date) = DtOrd(date_threshold) - 1)
                       => ~Requested(c.url)

\* C6: the threshold is the clock reading of __init__ less 30 days in every
\* state of the run: no callback and no passing of time changes it
C6_ThresholdFixed ==
    spider \in Spiders =>
        /\ IsDt(date_threshold)
        /\ DtOrd(started) - DtOrd(date_threshold) = 30
        /\ date_threshold.tod = started.tod

\* a listing callback has compared dates after the clock moved on
C6_Witness ==
    /\ spider = "bankinform" /\ last.cb = "list"
    /\ \E i \in 1..Len(last.cands) : IsDt(last.cands[i].date)
    /\ clock # started

\* C7: parse_date_text of bankinform and of plusworld returns a date or
\* None for every text and lets no exception out
C7_NeverRaises ==
    fn \in {"BI_parse_date_text", "PW_parse_date_text"} => out # Raise

\* the month lengths of a common year
MonthLengths == << 31, 28, 31, 30, 31, 30, 31, 31, 30, 31, 30, 31 >>

\* year, month and day name a day of the calendar
RealDate(y, m, d) ==
    /\ y >= 1
    /\ m \in 1..12
    /\ d >= 1
    /\ d <= IF m = 2 /\ y % 4 = 0 /\ (y % 100 # 0 \/ y % 400 = 0)
            THEN 29 ELSE MonthLengths[m]

DateAt(y, m, d) == [k |-> "dt", y |-> y, m |-> m, d |-> d, tod |-> 0]

\* C8: for a text "D month YYYY" with one of the twelve month names in any
\* case and a day of that month, parse_russian_date of bankinform and of
\* plusworld returns that calendar date
C8_RussianDateExact ==
    (/\ fn \in {"BI_parse_russian_date", "PW_parse_russian_date"}
     /\ parts.shape = "ru"
     /\ RealDate(parts.y, MonthOfWord(parts.m), parts.d))
        => out = DateAt(parts.y, MonthOfWord(parts.m), parts.d)

\* C9: parse_russian_date of bankinform and rb and parse_standard_date of
\* bankinform return None for a text whose day, month and year are not a
\* day of the calendar or whose month word is not in the mapping, and any
\* date they return is the date written, never a date carried over
C9_InvalidDatesRefused ==
    /\ (fn \in {"BI_parse_russian_date", "RB_parse_russian_date"}
        /\ parts.shape = "ru")
           => IF parts.m <= 12 /\ RealDate(parts.y, parts.m, parts.d)
              THEN out = DateAt(parts.y, parts.m, parts.d)
              ELSE out = None
    /\ (fn = "BI_parse_standard_date" /\ parts.shape \in {"dmy", "ymd"})
           => IF RealDate(parts.y, parts.m, parts.d)
              THEN out = DateAt(parts.y, parts.m, parts.d)
              ELSE out = None

\* parse_russian_date of bankinform has returned None for 31 February 2025
C9_Witness ==
    /\ fn = "BI_parse_russian_date"
    /\ parts = Written("ru", 31, 2, 2025, 1)
    /\ out = None

\* the first result of a list of strategy results that is not None
RECURSIVE FirstSuccess(_)
FirstSuccess(rs) ==
    IF rs = << >> THEN None
    ELSE IF Head(rs) # None THEN Head(rs)
    ELSE FirstSuccess(Tail(rs))

\* C10: parse_date_text of bankinform and of plusworld returns the first
\* success of the Russian-month, the relative and the numeric strategy on
\* the cleaned text, a strategy whose error was caught counting as failed,
\* and None only if all three fail
C10_DispatchOrder ==
    /\ fn = "BI_parse_date_text" =>
          /\ out # Raise
          /\ BI_clean_date_text(text).k = "str" =>
                LET c == BI_clean_date_text(text).s
                IN  out = FirstSuccess(<< BI_parse_russian_date(c),
                                          BI_parse_relative_date(c, clock),
                                          BI_parse_standard_date(c) >>)
    /\ fn = "PW_parse_date_text" =>
          /\ out # Raise
          /\ PW_clean_date_text(text).k = "str" =>
                LET c == PW_clean_date_text(text).s
                IN  out = FirstSuccess(<< PW_parse_russian_date(c),
                                          PW_parse_relative_date(c, clock),
                                          BI_parse_standard_date(c) >>)

\* the date year, month and day name, None if they name no day
DateOrNone(y, m, d) == IF RealDate(y, m, d) THEN DateAt(y, m, d) ELSE None

\* the date of the leftmost D.M.YYYY of s and of the leftmost YYYY-M-D of s
DottedDateIn(s) ==
    LET mt == DmySearch(s, DOT)
    IN  IF mt.ok THEN DateOrNone(IntOf(mt.g3), IntOf(mt.g2), IntOf(mt.g1))
        ELSE None
DashedDateIn(s) ==
    LET mt == YmdSearch(s)
    IN  IF mt.ok THEN DateOrNone(IntOf(mt.g1), IntOf(mt.g2), IntOf(mt.g3))
        ELSE None

\* C11: parse_standard_date of bankinform returns the date of the first of
\* the patterns DD.MM.YYYY and YYYY-MM-DD that matches and names a day of
\* the calendar: a dotted match that names no day does not keep a dashed
\* date of the same text from being returned
C11_NumericFallthrough ==
    fn = "BI_parse_standard_date" =>
        out = FirstSuccess(<< DottedDateIn(text), DashedDateIn(text) >>)

\* the minutes of the unit a relative text's word names, 0 for a word that
\* names none: den', dnya, dney; chas, chasa, chasov; minut; nedeli
UnitMinutesOfWord(w) ==
    IF w \in 1..3 THEN MinutesPerDay
    ELSE IF w \in 4..6 THEN 60
    ELSE IF w = 7 THEN 1
    ELSE IF w = 8 THEN 7 * MinutesPerDay
    ELSE 0

\* the moment days days and mins minutes (mins < 1440) before now, None
\* when it lies before the first minute of year 1
Before(now, days, mins) ==
    IF days > DtOrd(now) - 1 THEN None
    ELSE LET n == (DtOrd(now) - 1 - days) * MinutesPerDay + now.tod - mins
         IN  IF n < 0 THEN None
             ELSE [k |-> "dt",
                   y |-> FromOrdinal(n \div MinutesPerDay + 1).y,
                   m |-> FromOrdinal(n \div MinutesPerDay + 1).m,
                   d |-> FromOrdinal(n \div MinutesPerDay + 1).d,
                   tod |-> n % MinutesPerDay]

\* the moment n units of unit minutes before now
UnitsBefore(now, n, unit) ==
    IF unit >= MinutesPerDay THEN Before(now, n * (unit \div MinutesPerDay), 0)
    ELSE Before(now, n \div (MinutesPerDay \div unit),
                (n % (MinutesPerDay \div unit)) * unit)

\* the number of a relative text is short enough to be read exactly
ExactNumber(p) == Len(RelNumbers[p.d]) <= 6

\* C12: parse_relative_date of bankinform and of plusworld, called on
\* "N word ago", returns the clock less N days for a day word, N hours for
\* an hour word, N minutes for the minute word and N weeks for the week
\* word, and None for a word that is no unit; on a text with an hour word
\* and then a day word it takes the first number as days; on a text with no
\* number it returns None
C12_RelativeUnits ==
    fn \in {"BI_parse_relative_date", "PW_parse_relative_date"} =>
        /\ (parts.shape = "rel" /\ ExactNumber(parts)) =>
              IF UnitMinutesOfWord(parts.m) = 0 THEN out = None
              ELSE LET want == UnitsBefore(clock, IntOf(RelNumbers[parts.d]),
                                           UnitMinutesOfWord(parts.m))
                   IN  want # None => out = want
        /\ parts = Written("raw", 5, 0, 0, 1) => out = UnitsBefore(clock, 3, MinutesPerDay)
        /\ parts = Written("raw", 7, 0, 0, 1) => out = UnitsBefore(clock, 3, MinutesPerDay)
        /\ parts = Written("raw", 3, 0, 0, 1) => out = None

\* C13: parse_date_text of bankinform, called on "N dney nazad" at any
\* moment of the run, returns a date on the calendar day that lies N days
\* before the clock reading __init__ took
C13_RelativeToRunStart ==
    (/\ fn = "BI_parse_date_text"
     /\ parts.shape = "rel" /\ parts.m = 3 /\ ExactNumber(parts)
     /\ IntOf(RelNumbers[parts.d]) < DtOrd(started))
        => /\ IsDt(out)
           /\ DtOrd(out) = DtOrd(started) - IntOf(RelNumbers[parts.d])

\* the text the validator is given: stripped, the icons in drop removed,
\* white space collapsed
CleanedOf(s, drop) == CollapseSpaces(RemoveChars(Strip(s), drop))

\* s contains one of the six shapes, read without regard to case
SixShapes(s) ==
    \/ RuSearch(s, CyrAnyCaseClass).ok
    \/ DmySearch(s, DOT).ok
    \/ DmySearch(s, SLASH).ok
    \/ YmdSearch(s).ok
    \/ DayWordFound(s, CyrAnyCaseClass)
    \/ NumStemFound(s, BI_pattern_stems)

\* clean_date_text returned r for a text whose cleaned form is c: the
\* cleaned text if it has one of the six shapes, None if not
ValidatedAs(r, c) ==
    IF SixShapes(c) THEN r = [k |-> "str", s |-> c] ELSE r = None

\* C14: clean_date_text of bankinform and of plusworld accepts a cleaned
\* text exactly when it contains one of the six shapes, and parse_date_text
\* returns None for a text that contains none
C14_ValidatorShapes ==
    /\ (fn = "BI_clean_date_text" /\ text # << >>)
           => ValidatedAs(out, CleanedOf(text, IconClass))
    /\ (fn = "PW_clean_date_text" /\ text # << >>)
           => ValidatedAs(out, CleanedOf(text, PW_IconClass))
    /\ (fn = "BI_parse_date_text" /\ ~SixShapes(CleanedOf(text, IconClass)))
           => out = None
    /\ (fn = "PW_parse_date_text" /\ ~SixShapes(CleanedOf(text, PW_IconClass)))
           => out = None

\* C15: a text clean_date_text of bankinform returns holds no icon, no
\* white space other than single spaces, and neither starts nor ends with
\* white space
C15_CleanedIsTidy ==
    (fn = "BI_clean_date_text" /\ out.k = "str") =>
        /\ \A i \in 1..Len(out.s) : out.s[i] \notin IconClass
        /\ \A i \in 1..Len(out.s) : out.s[i] \in SpaceClass => out.s[i] = SP
        /\ \A i \in 1..(Len(out.s) - 1) :
               ~(out.s[i] \in SpaceClass /\ out.s[i + 1] \in SpaceClass)
        /\ out.s # << >> =>
               (out.s[1] \notin SpaceClass /\ out.s[Len(out.s)] \notin SpaceClass)

\* the units of the relative dates and the minutes of each
UnitNames == {"days", "hours", "minutes", "weeks"}
MinutesOfUnit(u) ==
    CASE u = "days" -> MinutesPerDay
      [] u = "hours" -> 60
      [] u = "minutes" -> 1
      [] u = "weeks" -> 7 * MinutesPerDay

\* at position i of s a number starts that white space and one of the stems
\* follow, and r is the moment that number of units before now
NumberThenStemAt(s, i, stems, r, now, unit) ==
    /\ s[i] \in DigitClass
    /\ (i = 1 \/ s[i - 1] \notin DigitClass)
    /\ Run(s, i + Run(s, i, DigitClass), SpaceClass) >= 1
    /\ \E n \in 1..Len(stems) :
           OccursAtIC(s, i + Run(s, i, DigitClass)
                            + Run(s, i + Run(s, i, DigitClass), SpaceClass),
                      stems[n])
    /\ r = UnitsBefore(now, IntOf(Sub(s, i, i + Run(s, i, DigitClass) - 1)), unit)

\* C19: when parse_date_text of bankinform returns a date that its relative
\* strategy computed, the cleaned text holds a number N followed by white
\* space and the stem of a unit, and the date is the clock less N of that
\* unit
C19_RelativeNeedsNumberAndUnit ==
    (/\ fn = "BI_parse_date_text"
     /\ IsDt(out)
     /\ BI_parse_russian_date(CleanedOf(text, IconClass)) = None
     /\ BI_parse_relative_date(CleanedOf(text, IconClass), clock) # None)
        => \E i \in 1..Len(CleanedOf(text, IconClass)), u \in UnitNames :
               NumberThenStemAt(CleanedOf(text, IconClass), i, BI_unit_words[u],
                                out, clock, MinutesOfUnit(u))

\* the keys of the record the specification gives
RecordKeys ==
    {"title", "url", "search_term", "description", "article_date", "scraped_at"}

\* C16: the record an article callback yields has exactly the six keys,
\* its article_date is null exactly when the callback has no date for the
\* article, and its scraped_at is present
C16_RecordShape ==
    last.cb = "article" =>
        /\ DOMAIN last.item.record = RecordKeys
        /\ (last.item.record.article_date = None)
               <=> ~IsDt(last.item.article_date)
        /\ last.item.record.scraped_at # None

\* t is a calendar date YYYY-MM-DD and nothing more
IsCalendarDateText(t) ==
    /\ Len(t) = 10
    /\ t[5] = DASH /\ t[8] = DASH
    /\ \A i \in {1, 2, 3, 4, 6, 7, 9, 10} : t[i] \in DigitClass

\* C18: an article_date that is present in a yielded record is written as
\* year-month-day with no time of day
C18_DateOnly ==
    (/\ last.cb = "article"
     /\ "article_date" \in DOMAIN last.item.record
     /\ last.item.record.article_date # None)
        => IsCalendarDateText(last.item.record.article_date)

\* the pending requests for listing pages
ListPending == {r \in pending : r.cb = "list"}

\* the pending requests for a next page: those a listing callback yielded
NextPending == {r \in ListPending : ~IsStartName(r.url)}

\* the last page number of a spider's pagination
LastPage == IF spider = "bankcnews" THEN 2 ELSE 3

\* C20: every listing request carries a page number from 1 to 3 (2 for
\* bankcnews); a listing callback on the last page requests no listing
\* page; a new listing request is the request of start_requests for page 1
\* of a start url, or the last request of a listing callback, for the page
\* after the one it read; and, the engine answering every request, the
\* crawl comes to rest: every start url requested, no request pending and no
\* callback suspended
C20_PaginationTerminates ==
    /\ [](\A r \in ListPending : r.page >= 1 /\ r.page <= LastPage)
    /\ []((last.cb = "list" /\ last.page = LastPage) => NextPending = {})
    /\ [][\A r \in ListPending' \ ListPending :
              \/ /\ IsStartName(r.url)
                 /\ r.page = 1
                 /\ yielded' = yielded + 1
              \/ /\ suspended'.run.cb = "list"
                 /\ r.page = suspended'.run.page + 1
                 /\ suspended'.rest = << >>]_vars
    /\ <>[](/\ last.cb # "none"
            /\ yielded = Len(start_urls[spider])
            /\ EngineIdle)

\* a listing callback has read page 3, which had a link to a next page, and
\* requested no listing page
C20_Witness ==
    /\ spider \in Spiders
    /\ last.cb = "list" /\ last.page = 3 /\ last.next
    /\ NextPending = {}

\* C21: for a text written as a day and a Cyrillic month word with no year,
\* clean_date_text of bankinform returns the text, parse_date_text returns
\* None, and the recency filter keeps a candidate with that date
C21_DayMonthUndated ==
    /\ (fn = "BI_clean_date_text" /\ parts.shape = "dm")
           => out = [k |-> "str", s |-> text]
    /\ (fn = "BI_parse_date_text" /\ parts.shape = "dm")
           => /\ out = None
              /\ BI_article_requests(<< [url |-> "recent", date |-> out] >>,
                                      date_threshold)
                     = << [url |-> "recent", date |-> out] >>

\* parse_date_text has been called on "27 октября"
C21_Witness ==
    /\ fn = "BI_parse_date_text"
    /\ parts.shape = "dm" /\ parts.d = 27 /\ parts.m = 10 /\ parts.pad = 1
    /\ out = None

\* the prefix of every url of the spider's own site: 'https://rb.ru/', ...
OwnPrefix == Origin(spider) \o << SLASH >>

\* what the running spider passes to clean_url for the link a of a page:
\* the href of its anchor, and for rb the link of the item, None if it has
\* none
CleanArg(a) == IF spider = "rb" THEN RB_link(a) ELSE Str(SiteHref(spider, a))

\* what clean_url of the running spider does with the link a: the text or
\* the None it returns, or Raise if its urljoin raises and it returns nothing
CleanedArg(link) ==
    IF link = None THEN None ELSE clean_url(Origin(spider), link.s)

CleanedHref(a) == CleanedArg(CleanArg(a))

\* what clean_url returned, if it returned, is None or a url that starts
\* with the spider's own https origin and a slash
NoneOrOwn(full_url) ==
    full_url \in {None, Raise} \/ StartsWith(full_url.s, OwnPrefix)

\* the same for the href of the anchor a to the next page
CleanedNext(a) == clean_url(Origin(spider), SiteHref(spider, a))

\* the url named u is what clean_url returns for the link a
CleansTo(a, u) == CleanedHref(a) = Str(SiteUrl(spider, u))

\* the listing callback that issued the latest requests: the suspended
\* one, or with none suspended the callback that ran last
IssuingRun == IF suspended # NoFrame THEN suspended.run ELSE last

\* what the listing callback with the record run read and requests stays on
\* the spider's own site
StaysOnSite(run) ==
    /\ \A i \in 1..Len(run.links) : NoneOrOwn(CleanedHref(run.links[i]))
    /\ \A i \in 1..Len(run.reqs) :
           /\ StartsWith(SiteUrl(spider, run.reqs[i]), OwnPrefix)
           /\ \E j \in 1..Len(run.links) : CleansTo(run.links[j], run.reqs[i])
    /\ \A r \in pending :
           /\ StartsWith(SiteUrl(spider, r.url), OwnPrefix)
           /\ r \in NextPending =>
                  /\ run.nexthref # "none"
                  /\ r.page = run.page + 1
                  /\ CleanedNext(run.nexthref) = Str(SiteUrl(spider, r.url))

\* C22: while a listing callback of bankinform, plusworld or rb is
\* suspended at a yield and after it has ended, what clean_url returned for
\* a link of the page, if it returned, is None or a url that starts with
\* the spider's own https origin and a slash; every url the callback
\* requests is what clean_url returned for a link of the page; the request
\* for the next page has the url clean_url returned for the page's next
\* anchor; and every pending request is for a url of the own site
C22_RequestsStayOnSite ==
    (spider \in Spiders /\ IssuingRun.cb = "list") => StaysOnSite(IssuingRun)

\* a listing page with an anchor to a host that only begins like the own
\* one, an anchor to the own site with its scheme in capitals and a next
\* anchor to another host has been read: the own article alone was
\* requested
C22_Witness ==
    /\ spider \in Spiders
    /\ last.cb = "list"
    /\ last.links = << "lookalike", "upper" >>
    /\ last.nexthref = "nextother"
    /\ last.reqs = << "a" >>
    /\ {r.url : r \in pending \ ListPending} = {"a"}
    /\ NextPending = {}

\* the spiders that remove duplicate urls
Dedupers == {"plusworld", "rb", "bankcnews"}

\* the date extract_articles_with_dates of plusworld reads for the element
\* a: near a bare anchor by find_date_near_element, in a card or a section
\* from its own date element
PW_element_date(a, now) ==
    IF PW_kind(a) = "anchor" THEN PW_near_date[a][now] ELSE PW_link_date[a][now]

\* the element at position j of links is the first of its kind that
\* clean_url gives the url named u for
FirstOfUrl(links, j, u) ==
    /\ CleansTo(links[j], u)
    /\ \A i \in 1..(j - 1) :
           PW_kind(links[i]) = PW_kind(links[j]) => ~CleansTo(links[i], u)

\* C23: a listing callback of plusworld, rb or bankcnews requests no url
\* twice, and a candidate of plusworld, whichever of the three methods
\* found it, has the title and the date of the first element of its kind
\* on the page that has its url
C23_NoDuplicateRequests ==
    (spider \in Dedupers /\ last.cb = "list") =>
        /\ \A i, j \in 1..Len(last.reqs) :
               i # j => last.reqs[i] # last.reqs[j]
        /\ spider = "plusworld" =>
               \A n \in 1..Len(last.cands) :
                   \E j \in 1..Len(last.links) :
                       /\ FirstOfUrl(last.links, j, last.cands[n].url)
                       /\ last.cands[n].title = last.links[j]
                       /\ last.cands[n].date
                              = PW_element_date(last.links[j], clock)

\* plusworld has read a page of which two cards lead to the same article
\* (a card with a date element makes parse_date_text raise, so neither has
\* one): one candidate, with the title of the first, and one request
C23_Witness ==
    /\ spider = "plusworld"
    /\ last.cb = "list"
    /\ last.links = << "dslash", "rel" >>
    /\ last.cands = << [url |-> "a", title |-> "dslash", date |-> None] >>
    /\ last.reqs = << "a" >>

\* C24: when clean_date_text of bankinform returns a text, clean_date_text
\* of that text returns the same text
C24_CleanIdempotent ==
    (fn = "BI_clean_date_text" /\ out # None)
        => BI_clean_date_text(out.s) = out
====
